---- MODULE Spec2Model ----
(***************************************************************************)
(* Function lifecycle supervisor of kappa-service: the registry of        *)
(* KappaService (cmd/kappa-service/main.go) and the per-function instance  *)
(* KappaFunction (internal/kappa/kappa.go) on top of the container         *)
(* adapter (internal/cont/cont.go) and an abstract container engine.       *)
(*                                                                         *)
(* Every goroutine (an HTTP handler, a direct caller of the instance API,  *)
(* an idle-timer callback) is a process of Procs with a program counter.   *)
(* A step is one access to shared state; a critical section that takes no  *)
(* other lock and calls nothing (resetIdleTimer, cancelIdleTimer,          *)
(* SetIdleTimeout, IsRunning) is one step.                                 *)
(***************************************************************************)
EXTENDS Naturals, Sequences, FiniteSets, TLC

\* ---- bounds of the model ----
MaxInstances == 2      \* KappaFunction objects ever created by Register
MaxContainers == 2     \* containers ever created in the engine
MaxFaults == 2         \* failures injected by the engine and the environment
MaxRequests == 1       \* cap on requestsProcessed of one instance
MaxLines == 3          \* lines a container writes on one pipe
LogCap == 3            \* lines kept in KappaFunction.logs (1000 in kappa.go, scaled down)
MaxDirs == 2           \* temp directories ever made for one container handle

\* ---- program constants ----
DefaultPort == 8080

Procs == {1, 2}
Names == {"f"}
Inst == 1..MaxInstances
Cont == 1..MaxContainers
NoInst == 0
NoCont == 0
NoProc == 0
Durations == {"default", "short"}
Pipes == {"stderr", "stdout"}
NoPipe == "-"

VARIABLES
    functions,          \* KappaService.functions: name -> instance (NoInst: absent)
    created,            \* number of KappaFunction objects allocated so far
    Name,               \* KappaFunction.Name of each allocated instance
    isRunning,          \* KappaFunction.isRunning
    isRunningMu,        \* holder of KappaFunction.isRunningMu
    container,          \* KappaFunction.container (NoCont: nil)
    containerURL,       \* KappaFunction.containerURL is populated
    Port,               \* KappaFunction.Port
    idleTimer,          \* KappaFunction.idleTimer: "nil", "armed" or "fired"
    idleTimeout,        \* KappaFunction.idleTimeout
    requestsProcessed,  \* KappaFunction.requestsProcessed
    engine,             \* engine state of each container id
    owner,              \* instance a container was created for
    faults,             \* failures injected so far
    pc,                 \* position of each goroutine
    loc,                \* locals of each goroutine
    obs,                \* what an Invoke call has done so far (observation only)
    accepting,          \* the gateway's http.Server accepts requests
    logs,               \* KappaFunction.logs of the instance whose container writes
    logsMu,             \* holder of KappaFunction.logsMu
    pumps,              \* position of the log pump of each pipe of the container
    appended,           \* every line appended to logs so far, in order (observation only)
    snapshot,           \* what the last GetLogs returned
    flow,               \* one request on its way through gateway, Invoke and container
    handle,             \* the cont.Container handle: "none", "live", "dropped", "finalized"
    engCont,            \* the engine holds a container (and snapshot) under the handle's id
    engTask,            \* the engine's task of it: "none", "created", "running", "stopped"
    cContainer,         \* Container.container is set
    cTask,              \* Container.task is set
    tempDirs,           \* Container.tempDirs
    disk,               \* the temp directories present on the file system
    apc,                \* position of the caller of the container adapter
    aloc,               \* locals of that caller
    aret,               \* what the last adapter operation returned (observation only)
    cLogs,              \* Container.logs
    logMu,              \* holder of Container.logMu
    callbackMu,         \* holder of Container.callbackMu
    callbacks,          \* Container.callbacks
    thr,                \* the log pumps of the adapter and the caller of its log API
    delivered,          \* the lines each callback was called with, in order (observation only)
    mu,                 \* holder of each mutex of an instance and of its container handle
    prog                \* the lock and unlock calls each task still has before it

vars == <<functions, created, Name, Port, isRunning, isRunningMu, container, containerURL,
          idleTimer, idleTimeout, requestsProcessed, engine, owner, faults, pc, loc, obs,
          accepting, logs, logsMu, pumps, appended, snapshot, flow, handle, engCont, engTask,
          cContainer, cTask, tempDirs, disk, apc, aloc, aret, cLogs, logMu, callbackMu,
          callbacks, thr, delivered, mu, prog>>

svc == <<functions, created, Name, Port>>
inst == <<isRunning, isRunningMu, container, containerURL, idleTimer, idleTimeout,
          requestsProcessed>>
eng == <<engine, owner, faults>>
life == <<pc, loc, obs>>
logv == <<logs, logsMu, pumps, appended, snapshot>>
adp == <<handle, engCont, engTask, cContainer, cTask, tempDirs, disk, apc, aloc, aret>>
strm == <<cLogs, logMu, callbackMu, callbacks, thr, delivered>>
lockv == <<mu, prog>>
rest == <<accepting, logv, flow, adp, strm, lockv>>

NoLoc == [op |-> "-", fn |-> NoInst, nm |-> "-", arg |-> "-", ret |-> "-", res |-> "none",
          cid |-> NoCont, reg |-> 0, todo |-> {}]
NoObs == [wasCold |-> FALSE, stopSeen |-> FALSE, posts |-> 0, restarts |-> 0,
          failRunning |-> FALSE, restartOk |-> FALSE]

Allocated == 1..created

\* ---- the data of one request: JSON values, request ids, envelopes ----

\* a string is the sequence of its pieces, the empty string the empty sequence
Empty == <<>>
Uuid == <<"uuid">>
Own == <<"own-id">>
EvIds == {Empty, <<"event-body-id">>}
KridVals == {Empty, <<"kappa-aws-id">>}
XridVals == {Empty, <<"x-req-id">>}

\* a JSON value: its type t, its text v and, for the body an echoing handler builds, the
\* value of its "input" member
NoLeaf == [t |-> "absent", v |-> ""]
J(t, v) == [t |-> t, v |-> v, input |-> NoLeaf]
NoJson == J("absent", "")
JsonValues ==
    {J("object", "name:TestUser"), J("object", "n:9007199254740993"), J("array", "[1,2]"),
     J("string", "text"), J("number", "7"), J("number", "9007199254740993"),
     J("bool", "true"), J("null", "null")}

\* encoding/json decodes every number into a float64
WidenText(v) ==
    CASE v = "9007199254740993" -> "9007199254740992"
      [] v = "n:9007199254740993" -> "n:9007199254740992"
      [] OTHER -> v
Widen(x) == [t |-> x.t, v |-> WidenText(x.v),
             input |-> [t |-> x.input.t, v |-> WidenText(x.input.v)]]

\* json.Decoder.Decode into a map[string]any: an object, or null (the map stays nil)
DecodeMap(x) == [ok |-> x.t \in {"object", "null"}, val |-> Widen(x)]

NoEvent == [body |-> NoJson, requestId |-> Empty]
NoReq == [method |-> "-", krid |-> Empty, xrid |-> Empty, decodable |-> FALSE, ev |-> NoEvent]
NoEnv == [statusCode |-> 0, headers |-> {}, body |-> NoJson, requestId |-> Empty]
NoCres == [status |-> 0, kind |-> "-", env |-> NoEnv, error |-> ""]
NoOut == [err |-> FALSE, env |-> NoEnv]
NoReply == [written |-> FALSE, status |-> 0, headers |-> {}, body |-> NoJson]

\* the locals of the caller of the container adapter: the operation op, its removeOnStop
\* option rm, the operation it returns into (ret), the temp directory Start made (tmp), the
\* errors collected so far (errs) and, as observations, the steps Remove attempted (tried),
\* the steps that failed with an error other than not-found (failed), the directories
\* registered when Remove began (dirs), whether a Start of the handle succeeded (started)
\* and whether Stop was called on a started container the engine held (had)
NoDir == 0
NoALoc == [op |-> "-", rm |-> FALSE, ret |-> "-", tmp |-> NoDir, errs |-> <<>>, tried |-> <<>>,
           failed |-> <<>>, dirs |-> {}, started |-> FALSE, had |-> FALSE]

\* the goroutines at the log API of a container handle: its two pumps and a caller; of
\* each its position pc, the lines scanned so far (k), the line at hand, the copy of the
\* callback list (cbs), the index into that copy or into the stored lines (i), the
\* callback it runs or registers (cb) and where that callback was called from (from)
Threads == Pipes \cup {"caller"}
NoThread == "-"
NoThr == [pc |-> "idle", k |-> 0, line |-> <<>>, cbs |-> <<>>, i |-> 0, cb |-> "-", from |-> "-"]

\* what a registered callback does with a line: it keeps the line for itself, as the
\* callback of KappaFunction.Start does, or it also reads the stored lines with GetLogs
CbKinds == {"plain", "getlogs"}

\* the gateway serves, no container has written a line, no request is under way, no
\* container handle exists
NoFlow == [stage |-> "idle", via |-> "-", by |-> "-", x |-> NoJson, ev |-> NoEvent,
           hdr |-> Empty, req |-> NoReq, called |-> FALSE, seen |-> NoEvent, hres |-> NoEnv,
           cres |-> NoCres, out |-> NoOut, reply |-> NoReply]
InitGateway ==
    /\ accepting = TRUE
    /\ logs = <<>>
    /\ logsMu = NoPipe
    /\ pumps = [s \in Pipes |-> [pc |-> "scan", k |-> 0]]
    /\ appended = <<>>
    /\ snapshot = [lines |-> <<>>, at |-> 0]
    /\ flow = NoFlow

InitAdapter ==
    /\ handle = "none"
    /\ engCont = FALSE
    /\ engTask = "none"
    /\ cContainer = FALSE
    /\ cTask = FALSE
    /\ tempDirs = <<>>
    /\ disk = {}
    /\ apc = "idle"
    /\ aloc = NoALoc
    /\ aret = NoALoc

InitLogStore ==
    /\ cLogs = <<>>
    /\ logMu = NoThread
    /\ callbackMu = NoThread
    /\ callbacks = <<>>
    /\ thr = [t \in Threads |-> NoThr]
    /\ delivered = [cb \in CbKinds |-> <<>>]

\* the mutexes of a KappaFunction and of the cont.Container it holds, and the tasks that
\* take them: two goroutines, each in a call of the instance API or in the callback of the
\* idle timer, and the two log pumps of the container
Locks == {"isRunningMu", "idleTimerMu", "logsMu", "logMu", "callbackMu", "cleanupMu"}
Goroutines == {"g1", "g2"}
Tasks == Goroutines \cup Pipes
NoTask == "-"

InitLocks ==
    /\ mu = [l \in Locks |-> NoTask]
    /\ prog = [t \in Tasks |-> <<>>]

InitRest == InitGateway /\ InitAdapter /\ InitLogStore /\ InitLocks

\* no function is registered and no goroutine is under way
InitService ==
    /\ functions = [n \in Names |-> NoInst]
    /\ created = 0
    /\ Name = [i \in Inst |-> "-"]
    /\ Port = [i \in Inst |-> 0]
    /\ isRunning = [i \in Inst |-> FALSE]
    /\ isRunningMu = [i \in Inst |-> NoProc]
    /\ container = [i \in Inst |-> NoCont]
    /\ containerURL = [i \in Inst |-> FALSE]
    /\ idleTimer = [i \in Inst |-> "nil"]
    /\ idleTimeout = [i \in Inst |-> "default"]
    /\ requestsProcessed = [i \in Inst |-> 0]
    /\ engine = [c \in Cont |-> "none"]
    /\ owner = [c \in Cont |-> NoInst]
    /\ faults = 0
    /\ pc = [p \in Procs |-> "idle"]
    /\ loc = [p \in Procs |-> NoLoc]
    /\ obs = [p \in Procs |-> NoObs]

Init == InitService /\ InitRest

\* ---- helpers ----

\* the goroutine p may take lf.isRunningMu of instance i
LockFree(i) == isRunningMu[i] = NoProc

\* a server answers on the loopback port of instance i (containers share the host network)
Listening(i) == \E c \in Cont : engine[c] = "running" /\ Port[owner[c]] = Port[i]

\* the next unused container id (each Start names its container with a fresh uuid)
FreshCont == CHOOSE c \in Cont : engine[c] = "none" /\ \A d \in Cont : engine[d] = "none" => c <= d
HasFresh == \E c \in Cont : engine[c] = "none"

\* an injected failure is still within the budget
MayFail == faults < MaxFaults

\* where the caller of Start continues, given whether Start returned an error
AfterStartPc(r, e) ==
    CASE r = "inv_cold" -> IF e THEN "done" ELSE "inv_reset"
      [] r = "inv_restart" -> IF e THEN "done" ELSE "inv_repost"
      [] OTHER -> "done"

AfterStartRes(r, e) ==
    CASE r = "inv_cold" -> IF e THEN "500" ELSE "none"
      [] r = "inv_restart" -> IF e THEN "500" ELSE "none"
      [] OTHER -> IF e THEN "err" ELSE "nil"

\* where the caller of Stop continues, given whether Stop returned an error
AfterStopPc(r, e) ==
    CASE r = "inv_restop" -> "start_begin"
      [] r = "del" -> IF e THEN "done" ELSE "del_remove"
      [] r = "cb" -> "idle"
      [] r = "sd" -> "sd_next"
      [] OTHER -> "done"

AfterStopRes(r, e) ==
    CASE r = "inv_restop" -> "none"
      [] r = "del" -> IF e THEN "500" ELSE "none"
      [] r = "cb" -> "none"
      [] r = "sd" -> "none"
      [] OTHER -> IF e THEN "err" ELSE "nil"

AfterStopRet(r) == IF r = "inv_restop" THEN "inv_restart" ELSE "-"

ReturnFromStart(p, e) ==
    /\ pc' = [pc EXCEPT ![p] = AfterStartPc(loc[p].ret, e)]
    /\ loc' = [loc EXCEPT ![p].res = AfterStartRes(loc[p].ret, e), ![p].ret = "-",
                          ![p].cid = NoCont]
    /\ obs' = [obs EXCEPT ![p].restartOk = (loc[p].ret = "inv_restart" /\ ~e)]

ReturnFromStop(p, e, stopped) ==
    /\ pc' = [pc EXCEPT ![p] = AfterStopPc(loc[p].ret, e)]
    /\ loc' = [loc EXCEPT ![p] = IF loc[p].ret = "cb" THEN NoLoc
                                 ELSE [loc[p] EXCEPT !.res = AfterStopRes(loc[p].ret, e),
                                                     !.ret = AfterStopRet(loc[p].ret)]]
    /\ obs' = [q \in DOMAIN obs |->
                 IF stopped /\ q # p /\ loc[q].op = "invoke" /\ loc[q].fn = loc[p].fn
                 THEN [obs[q] EXCEPT !.stopSeen = TRUE] ELSE obs[q]]

Finish(p, r) ==
    /\ pc' = [pc EXCEPT ![p] = "done"]
    /\ loc' = [loc EXCEPT ![p].res = r]

\* ---- KappaService.registerFunction ----
RegInputs == {"ok", "undecodable", "missingField", "noBinary"}

\* registerFunction without the os.Stat check of binaryPath
Register_SkipStat(p, nm, in, port) ==
    /\ pc[p] = "idle"
    /\ accepting
    /\ IF in \notin {"ok", "noBinary"}
       THEN /\ pc' = [pc EXCEPT ![p] = "done"]
            /\ loc' = [loc EXCEPT ![p] = [NoLoc EXCEPT !.op = "register", !.nm = nm, !.arg = in,
                                                       !.res = "400"]]
            /\ UNCHANGED svc
       ELSE /\ created < MaxInstances
            /\ created' = created + 1
            /\ functions' = [functions EXCEPT ![nm] = created + 1]
            /\ Name' = [Name EXCEPT ![created + 1] = nm]
            /\ Port' = [Port EXCEPT ![created + 1] = IF port = 0 THEN DefaultPort ELSE port]
            /\ pc' = [pc EXCEPT ![p] = "done"]
            /\ loc' = [loc EXCEPT ![p] = [NoLoc EXCEPT !.op = "register", !.nm = nm, !.arg = in,
                                                       !.fn = created + 1, !.res = "201"]]
    /\ UNCHANGED <<inst, eng, obs>>
    /\ UNCHANGED rest

\* the request body: decodable with every field and an existing binary ("ok"), or failing
\* one of the three checks
Register(p, nm, in, port) ==
    /\ pc[p] = "idle"
    /\ accepting
    /\ IF in # "ok"
       THEN /\ pc' = [pc EXCEPT ![p] = "done"]
            /\ loc' = [loc EXCEPT ![p] = [NoLoc EXCEPT !.op = "register", !.nm = nm, !.arg = in,
                                                       !.res = "400"]]
            /\ UNCHANGED svc
       ELSE /\ created < MaxInstances
            /\ created' = created + 1
            /\ functions' = [functions EXCEPT ![nm] = created + 1]
            /\ Name' = [Name EXCEPT ![created + 1] = nm]
            /\ Port' = [Port EXCEPT ![created + 1] = IF port = 0 THEN DefaultPort ELSE port]
            /\ pc' = [pc EXCEPT ![p] = "done"]
            /\ loc' = [loc EXCEPT ![p] = [NoLoc EXCEPT !.op = "register", !.nm = nm, !.arg = in,
                                                       !.fn = created + 1, !.res = "201"]]
    /\ UNCHANGED <<inst, eng, obs>>
    /\ UNCHANGED rest

\* ---- KappaFunction.Start ----
\* Start without the early return on isRunning
StartBegin_NoRunningCheck(p) ==
    LET i == loc[p].fn IN
    /\ pc[p] = "start_begin"
    /\ LockFree(i)
    /\ \/ /\ HasFresh
          /\ engine' = [engine EXCEPT ![FreshCont] = "running"]
          /\ owner' = [owner EXCEPT ![FreshCont] = i]
          /\ isRunningMu' = [isRunningMu EXCEPT ![i] = p]
          /\ pc' = [pc EXCEPT ![p] = "start_finish"]
          /\ loc' = [loc EXCEPT ![p].cid = FreshCont]
          /\ UNCHANGED <<faults, obs, isRunning, container, containerURL, idleTimer,
                         idleTimeout, requestsProcessed>>
       \/ /\ MayFail \/ ~HasFresh
          /\ faults' = IF MayFail THEN faults + 1 ELSE faults
          /\ \/ UNCHANGED <<engine, owner>>
             \/ /\ HasFresh
                /\ engine' = [engine EXCEPT ![FreshCont] = "created"]
                /\ owner' = [owner EXCEPT ![FreshCont] = i]
          /\ ReturnFromStart(p, TRUE)
          /\ UNCHANGED inst
    /\ UNCHANGED svc
    /\ UNCHANGED rest

\* Start up to the return of container.StreamLogs, under isRunningMu: the early return when
\* running, else the engine call. It fails before anything is allocated or leaves a
\* container whose task never ran ("created"); once every container id of the model is
\* used it can only fail.
StartBegin(p) ==
    LET i == loc[p].fn IN
    /\ pc[p] = "start_begin"
    /\ LockFree(i)
    /\ IF isRunning[i]
       THEN /\ ReturnFromStart(p, FALSE)
            /\ UNCHANGED <<inst, eng>>
       ELSE \/ /\ HasFresh
               /\ engine' = [engine EXCEPT ![FreshCont] = "running"]
               /\ owner' = [owner EXCEPT ![FreshCont] = i]
               /\ isRunningMu' = [isRunningMu EXCEPT ![i] = p]
               /\ pc' = [pc EXCEPT ![p] = "start_finish"]
               /\ loc' = [loc EXCEPT ![p].cid = FreshCont]
               /\ UNCHANGED <<faults, obs, isRunning, container, containerURL, idleTimer,
                              idleTimeout, requestsProcessed>>
            \/ /\ MayFail \/ ~HasFresh
               /\ faults' = IF MayFail THEN faults + 1 ELSE faults
               /\ \/ UNCHANGED <<engine, owner>>
                  \/ /\ HasFresh
                     /\ engine' = [engine EXCEPT ![FreshCont] = "created"]
                     /\ owner' = [owner EXCEPT ![FreshCont] = i]
               /\ ReturnFromStart(p, TRUE)
               /\ UNCHANGED inst
    /\ UNCHANGED svc
    /\ UNCHANGED rest

StartFinish(p) ==
    LET i == loc[p].fn IN
    /\ pc[p] = "start_finish"
    /\ container' = [container EXCEPT ![i] = loc[p].cid]
    /\ containerURL' = [containerURL EXCEPT ![i] = TRUE]
    /\ isRunning' = [isRunning EXCEPT ![i] = TRUE]
    /\ idleTimer' = [idleTimer EXCEPT ![i] = "armed"]
    /\ isRunningMu' = [isRunningMu EXCEPT ![i] = NoProc]
    /\ ReturnFromStart(p, FALSE)
    /\ UNCHANGED <<svc, eng, idleTimeout, requestsProcessed>>
    /\ UNCHANGED rest

\* ---- KappaFunction.Stop ----

\* what a failed Container.Stop can leave of a container in engine state s: the kill
\* failed (unchanged), the task is gone but Remove failed, or only the unlinking of the
\* temp directories failed
StopLeaves(s) ==
    CASE s = "running" -> {"running", "exited", "removed"}
      [] s = "exited" -> {"exited", "removed"}
      [] OTHER -> {s}

\* Stop that looks at the container handle only
StopBegin_NoRunningCheck(p) ==
    LET i == loc[p].fn IN
    /\ pc[p] = "stop_begin"
    /\ LockFree(i)
    /\ IF container[i] = NoCont
       THEN /\ ReturnFromStop(p, FALSE, FALSE)
            /\ UNCHANGED inst
       ELSE /\ isRunningMu' = [isRunningMu EXCEPT ![i] = p]
            /\ idleTimer' = [idleTimer EXCEPT ![i] = "nil"]
            /\ pc' = [pc EXCEPT ![p] = "stop_engine"]
            /\ UNCHANGED <<loc, obs, isRunning, container, containerURL, idleTimeout,
                           requestsProcessed>>
    /\ UNCHANGED <<svc, eng>>
    /\ UNCHANGED rest

StopBegin(p) ==
    LET i == loc[p].fn IN
    /\ pc[p] = "stop_begin"
    /\ LockFree(i)
    /\ IF ~isRunning[i] \/ container[i] = NoCont
       THEN /\ ReturnFromStop(p, FALSE, FALSE)
            /\ UNCHANGED inst
       ELSE /\ isRunningMu' = [isRunningMu EXCEPT ![i] = p]
            /\ idleTimer' = [idleTimer EXCEPT ![i] = "nil"]
            /\ pc' = [pc EXCEPT ![p] = "stop_engine"]
            /\ UNCHANGED <<loc, obs, isRunning, container, containerURL, idleTimeout,
                           requestsProcessed>>
    /\ UNCHANGED <<svc, eng>>
    /\ UNCHANGED rest

StopEngine(p) ==
    LET i == loc[p].fn
        c == container[i] IN
    /\ pc[p] = "stop_engine"
    /\ isRunningMu' = [isRunningMu EXCEPT ![i] = NoProc]
    /\ \/ /\ engine' = [engine EXCEPT ![c] = "removed"]
          /\ isRunning' = [isRunning EXCEPT ![i] = FALSE]
          /\ ReturnFromStop(p, FALSE, TRUE)
          /\ UNCHANGED faults
       \/ /\ MayFail
          /\ faults' = faults + 1
          /\ \E s \in StopLeaves(engine[c]) : engine' = [engine EXCEPT ![c] = s]
          /\ ReturnFromStop(p, TRUE, FALSE)
          /\ UNCHANGED isRunning
    /\ UNCHANGED <<svc, owner, container, containerURL, idleTimer, idleTimeout,
                   requestsProcessed>>
    /\ UNCHANGED rest

\* ---- KappaFunction.Invoke, called by KappaService.invokeFunction ----
InvokeLookup(p, nm, bodyOk) ==
    /\ pc[p] = "idle"
    /\ accepting
    /\ IF functions[nm] = NoInst
       THEN /\ pc' = [pc EXCEPT ![p] = "done"]
            /\ loc' = [loc EXCEPT ![p] = [NoLoc EXCEPT !.op = "invoke", !.nm = nm, !.res = "404"]]
       ELSE IF ~bodyOk
       THEN /\ pc' = [pc EXCEPT ![p] = "done"]
            /\ loc' = [loc EXCEPT ![p] = [NoLoc EXCEPT !.op = "invoke", !.nm = nm,
                                                       !.fn = functions[nm], !.res = "400"]]
       ELSE /\ requestsProcessed[functions[nm]] < MaxRequests
            /\ pc' = [pc EXCEPT ![p] = "inv_check"]
            /\ loc' = [loc EXCEPT ![p] = [NoLoc EXCEPT !.op = "invoke", !.nm = nm,
                                                       !.fn = functions[nm]]]
    /\ UNCHANGED <<svc, inst, eng, obs>>
    /\ UNCHANGED rest

\* Invoke that keeps isRunningMu after it found the instance running
InvokeCheck_KeepsLock(p) ==
    LET i == loc[p].fn IN
    /\ pc[p] = "inv_check"
    /\ LockFree(i)
    /\ IF isRunning[i]
       THEN /\ pc' = [pc EXCEPT ![p] = "inv_reset"]
            /\ isRunningMu' = [isRunningMu EXCEPT ![i] = p]
            /\ UNCHANGED <<loc, obs>>
       ELSE /\ pc' = [pc EXCEPT ![p] = "start_begin"]
            /\ loc' = [loc EXCEPT ![p].ret = "inv_cold"]
            /\ obs' = [obs EXCEPT ![p].wasCold = TRUE]
            /\ UNCHANGED isRunningMu
    /\ UNCHANGED <<svc, eng, isRunning, container, containerURL, idleTimer, idleTimeout,
                   requestsProcessed>>
    /\ UNCHANGED rest

\* Invoke that never starts a cold instance
InvokeCheck_SkipStart(p) ==
    LET i == loc[p].fn IN
    /\ pc[p] = "inv_check"
    /\ LockFree(i)
    /\ pc' = [pc EXCEPT ![p] = "inv_reset"]
    /\ obs' = [obs EXCEPT ![p].wasCold = ~isRunning[i]]
    /\ UNCHANGED <<svc, inst, eng, loc>>
    /\ UNCHANGED rest

InvokeCheck(p) ==
    LET i == loc[p].fn IN
    /\ pc[p] = "inv_check"
    /\ LockFree(i)
    /\ IF isRunning[i]
       THEN /\ pc' = [pc EXCEPT ![p] = "inv_reset"]
            /\ UNCHANGED <<loc, obs>>
       ELSE /\ pc' = [pc EXCEPT ![p] = "start_begin"]
            /\ loc' = [loc EXCEPT ![p].ret = "inv_cold"]
            /\ obs' = [obs EXCEPT ![p].wasCold = TRUE]
    /\ UNCHANGED <<svc, inst, eng>>
    /\ UNCHANGED rest

InvokeReset(p) ==
    /\ pc[p] = "inv_reset"
    /\ idleTimer' = [idleTimer EXCEPT ![loc[p].fn] = "armed"]
    /\ pc' = [pc EXCEPT ![p] = "inv_post"]
    /\ UNCHANGED <<svc, eng, loc, obs, isRunning, isRunningMu, container, containerURL,
                   idleTimeout, requestsProcessed>>
    /\ UNCHANGED rest

InvokePost(p) ==
    /\ pc[p] = "inv_post"
    /\ pc' = [pc EXCEPT ![p] = "inv_wait"]
    /\ obs' = [obs EXCEPT ![p].posts = @ + 1]
    /\ UNCHANGED <<svc, inst, eng, loc>>
    /\ UNCHANGED rest

\* the errors client.Do can return: the connection fails ("inv_failed") or, with a server
\* that accepted the request, the 30 s Timeout of the client expires ("inv_timeout")
DoErrors(i) == IF Listening(i) THEN {"inv_failed", "inv_timeout"} ELSE {"inv_failed"}

InvokeResponse(p) ==
    LET i == loc[p].fn IN
    /\ pc[p] = "inv_wait"
    /\ \/ /\ Listening(i)
          /\ pc' = [pc EXCEPT ![p] = "inv_load"]
          /\ UNCHANGED <<loc, faults>>
       \/ /\ Listening(i)
          /\ MayFail
          /\ faults' = faults + 1
          /\ Finish(p, "500")
       \/ /\ ~Listening(i) \/ MayFail
          /\ faults' = IF Listening(i) THEN faults + 1 ELSE faults
          /\ \E e \in DoErrors(i) : pc' = [pc EXCEPT ![p] = e]
          /\ UNCHANGED loc
    /\ UNCHANGED <<svc, inst, engine, owner, obs>>
    /\ UNCHANGED rest

InvokeFailed(p) ==
    LET i == loc[p].fn IN
    /\ pc[p] \in {"inv_failed", "inv_timeout"}
    /\ IF isRunning[i]
       THEN /\ pc' = [pc EXCEPT ![p] = "stop_begin"]
            /\ loc' = [loc EXCEPT ![p].ret = "inv_restop"]
            /\ obs' = [obs EXCEPT ![p].failRunning = TRUE, ![p].restarts = @ + 1]
       ELSE /\ Finish(p, "500")
            /\ UNCHANGED obs
    /\ UNCHANGED <<svc, inst, eng>>
    /\ UNCHANGED rest

InvokeRetryPost(p) ==
    /\ pc[p] = "inv_repost"
    /\ pc' = [pc EXCEPT ![p] = "inv_rewait"]
    /\ obs' = [obs EXCEPT ![p].posts = @ + 1]
    /\ UNCHANGED <<svc, inst, eng, loc>>
    /\ UNCHANGED rest

\* Invoke that treats a failed retry like a failed first POST
InvokeRetryResponse_RestartAgain(p) ==
    LET i == loc[p].fn IN
    /\ pc[p] = "inv_rewait"
    /\ \/ /\ Listening(i)
          /\ pc' = [pc EXCEPT ![p] = "inv_load"]
          /\ UNCHANGED <<loc, faults>>
       \/ /\ ~Listening(i) \/ MayFail
          /\ faults' = IF Listening(i) THEN faults + 1 ELSE faults
          /\ pc' = [pc EXCEPT ![p] = "inv_failed"]
          /\ UNCHANGED loc
    /\ UNCHANGED <<svc, inst, engine, owner, obs>>
    /\ UNCHANGED rest

InvokeRetryResponse(p) ==
    LET i == loc[p].fn IN
    /\ pc[p] = "inv_rewait"
    /\ \/ /\ Listening(i)
          /\ pc' = [pc EXCEPT ![p] = "inv_load"]
          /\ UNCHANGED <<loc, faults>>
       \/ /\ ~Listening(i) \/ MayFail
          /\ faults' = IF Listening(i) THEN faults + 1 ELSE faults
          /\ Finish(p, "500")
    /\ UNCHANGED <<svc, inst, engine, owner, obs>>
    /\ UNCHANGED rest

InvokeLoad(p) ==
    /\ pc[p] = "inv_load"
    /\ pc' = [pc EXCEPT ![p] = "inv_store"]
    /\ loc' = [loc EXCEPT ![p].reg = requestsProcessed[loc[p].fn]]
    /\ UNCHANGED <<svc, inst, eng, obs>>
    /\ UNCHANGED rest

InvokeStore(p) ==
    /\ pc[p] = "inv_store"
    /\ requestsProcessed' = [requestsProcessed EXCEPT ![loc[p].fn] = loc[p].reg + 1]
    /\ pc' = [pc EXCEPT ![p] = "done"]
    /\ loc' = [loc EXCEPT ![p].res = "200", ![p].reg = 0]
    /\ UNCHANGED <<svc, eng, obs, isRunning, isRunningMu, container, containerURL, idleTimer,
                   idleTimeout>>
    /\ UNCHANGED rest

\* ---- KappaService.deleteFunction ----
DeleteLookup(p, nm) ==
    /\ pc[p] = "idle"
    /\ accepting
    /\ IF functions[nm] = NoInst
       THEN /\ pc' = [pc EXCEPT ![p] = "done"]
            /\ loc' = [loc EXCEPT ![p] = [NoLoc EXCEPT !.op = "delete", !.nm = nm, !.res = "404"]]
       ELSE /\ pc' = [pc EXCEPT ![p] = "del_isrunning"]
            /\ loc' = [loc EXCEPT ![p] = [NoLoc EXCEPT !.op = "delete", !.nm = nm,
                                                       !.fn = functions[nm]]]
    /\ UNCHANGED <<svc, inst, eng, obs>>
    /\ UNCHANGED rest

DeleteIsRunning(p) ==
    LET i == loc[p].fn IN
    /\ pc[p] = "del_isrunning"
    /\ LockFree(i)
    /\ IF isRunning[i]
       THEN /\ pc' = [pc EXCEPT ![p] = "stop_begin"]
            /\ loc' = [loc EXCEPT ![p].ret = "del"]
       ELSE /\ pc' = [pc EXCEPT ![p] = "del_remove"]
            /\ UNCHANGED loc
    /\ UNCHANGED <<svc, inst, eng, obs>>
    /\ UNCHANGED rest

DeleteRemove(p) ==
    /\ pc[p] = "del_remove"
    /\ functions' = [functions EXCEPT ![loc[p].nm] = NoInst]
    /\ Finish(p, "200")
    /\ UNCHANGED <<created, Name, Port, inst, eng, obs>>
    /\ UNCHANGED rest

\* ---- KappaService.Shutdown, called once by main on SIGINT or SIGTERM ----
ShutdownBegin(p) ==
    /\ pc[p] = "idle"
    /\ accepting
    /\ \A q \in Procs : loc[q].op # "shutdown"
    /\ pc' = [pc EXCEPT ![p] = "sd_next"]
    /\ loc' = [loc EXCEPT ![p] = [NoLoc EXCEPT !.op = "shutdown", !.todo = Names]]
    /\ UNCHANGED <<svc, inst, eng, obs>>
    /\ UNCHANGED rest

\* the range over s.functions, in any order; a name that is not in the map is not visited
ShutdownNext(p) ==
    /\ pc[p] = "sd_next"
    /\ IF loc[p].todo = {}
       THEN /\ pc' = [pc EXCEPT ![p] = "sd_server"]
            /\ loc' = [loc EXCEPT ![p].fn = NoInst, ![p].nm = "-"]
       ELSE \E nm \in loc[p].todo :
               /\ pc' = [pc EXCEPT ![p] = IF functions[nm] = NoInst THEN "sd_next"
                                          ELSE "sd_isrunning"]
               /\ loc' = [loc EXCEPT ![p].todo = @ \ {nm}, ![p].nm = nm,
                                     ![p].fn = functions[nm]]
    /\ UNCHANGED <<svc, inst, eng, obs>>
    /\ UNCHANGED rest

ShutdownIsRunning(p) ==
    LET i == loc[p].fn IN
    /\ pc[p] = "sd_isrunning"
    /\ LockFree(i)
    /\ IF isRunning[i]
       THEN /\ pc' = [pc EXCEPT ![p] = "stop_begin"]
            /\ loc' = [loc EXCEPT ![p].ret = "sd"]
       ELSE /\ pc' = [pc EXCEPT ![p] = "sd_next"]
            /\ UNCHANGED loc
    /\ UNCHANGED <<svc, inst, eng, obs>>
    /\ UNCHANGED rest

\* a request handler of the gateway has not returned yet
InFlight(q) == loc[q].op \in {"register", "invoke", "delete"} /\ pc[q] # "done"

\* http.Server.Shutdown closes the listeners ...
ShutdownServer(p) ==
    /\ pc[p] = "sd_server"
    /\ accepting' = FALSE
    /\ pc' = [pc EXCEPT ![p] = "sd_wait"]
    /\ UNCHANGED <<svc, inst, eng, loc, obs, logv, flow, adp, strm, lockv>>

\* ... and returns nil once no handler is in flight, or ctx.Err() when the context of main
\* expires first
ShutdownWait(p) ==
    /\ pc[p] = "sd_wait"
    /\ \/ /\ \A q \in Procs : ~InFlight(q)
          /\ Finish(p, "nil")
       \/ /\ \E q \in Procs : InFlight(q)
          /\ Finish(p, "err")
    /\ UNCHANGED <<svc, inst, eng, obs>>
    /\ UNCHANGED rest

\* ---- direct calls of the instance API (tests) ----
CallStart(p, i) ==
    /\ pc[p] = "idle"
    /\ i \in Allocated
    /\ pc' = [pc EXCEPT ![p] = "start_begin"]
    /\ loc' = [loc EXCEPT ![p] = [NoLoc EXCEPT !.op = "start", !.fn = i, !.ret = "direct"]]
    /\ UNCHANGED <<svc, inst, eng, obs>>
    /\ UNCHANGED rest

CallStop(p, i) ==
    /\ pc[p] = "idle"
    /\ i \in Allocated
    /\ pc' = [pc EXCEPT ![p] = "stop_begin"]
    /\ loc' = [loc EXCEPT ![p] = [NoLoc EXCEPT !.op = "stop", !.fn = i, !.ret = "direct"]]
    /\ UNCHANGED <<svc, inst, eng, obs>>
    /\ UNCHANGED rest

SetIdleTimeout(p, i, d) ==
    /\ pc[p] = "idle"
    /\ i \in Allocated
    /\ idleTimeout' = [idleTimeout EXCEPT ![i] = d]
    /\ idleTimer' = [idleTimer EXCEPT ![i] = IF @ = "nil" THEN "nil" ELSE "armed"]
    /\ UNCHANGED <<svc, eng, pc, loc, obs, isRunning, isRunningMu, container, containerURL,
                   requestsProcessed>>
    /\ UNCHANGED rest

\* ---- the idle timer: time.AfterFunc fires and runs its callback in a new goroutine ----
TimerFire(p, i) ==
    /\ pc[p] = "idle"
    /\ idleTimer[i] = "armed"
    /\ idleTimer' = [idleTimer EXCEPT ![i] = "fired"]
    /\ pc' = [pc EXCEPT ![p] = "cb_check"]
    /\ loc' = [loc EXCEPT ![p] = [NoLoc EXCEPT !.op = "timer", !.fn = i]]
    /\ UNCHANGED <<svc, eng, obs, isRunning, isRunningMu, container, containerURL,
                   idleTimeout, requestsProcessed>>
    /\ UNCHANGED rest

TimerCallback(p) ==
    LET i == loc[p].fn IN
    /\ pc[p] = "cb_check"
    /\ LockFree(i)
    /\ IF isRunning[i]
       THEN /\ pc' = [pc EXCEPT ![p] = "stop_begin"]
            /\ loc' = [loc EXCEPT ![p].ret = "cb"]
       ELSE /\ pc' = [pc EXCEPT ![p] = "idle"]
            /\ loc' = [loc EXCEPT ![p] = NoLoc]
    /\ UNCHANGED <<svc, inst, eng, obs>>
    /\ UNCHANGED rest

\* ---- the log callback that Start hands to Container.StreamLogs, and GetLogs ----

\* the log pump of pipe s reads the next line the container wrote (Container.processLogs)
PumpScan(s) ==
    /\ pumps[s].pc = "scan"
    /\ pumps[s].k < MaxLines
    /\ \E c \in Cont : engine[c] = "running"
    /\ pumps' = [pumps EXCEPT ![s] = [pc |-> "callback", k |-> @.k + 1]]
    /\ UNCHANGED <<svc, inst, eng, life, accepting, flow, adp, strm, lockv, logs, logsMu, appended, snapshot>>

\* the callback takes logsMu and appends the line
CallbackAppend(s) ==
    /\ pumps[s].pc = "callback"
    /\ logsMu = NoPipe
    /\ logsMu' = s
    /\ logs' = Append(logs, <<s, pumps[s].k>>)
    /\ appended' = Append(appended, <<s, pumps[s].k>>)
    /\ pumps' = [pumps EXCEPT ![s].pc = "trim"]
    /\ UNCHANGED <<svc, inst, eng, life, accepting, flow, adp, strm, lockv, snapshot>>

\* the callback that keeps the oldest lines
CallbackTrim_KeepsOldest(s) ==
    /\ pumps[s].pc = "trim"
    /\ logs' = IF Len(logs) > LogCap THEN SubSeq(logs, 1, LogCap) ELSE logs
    /\ logsMu' = NoPipe
    /\ pumps' = [pumps EXCEPT ![s].pc = "scan"]
    /\ UNCHANGED <<svc, inst, eng, life, accepting, flow, adp, strm, lockv, appended, snapshot>>

\* still under logsMu: lf.logs = lf.logs[len(lf.logs)-cap:] when longer than the cap
CallbackTrim(s) ==
    /\ pumps[s].pc = "trim"
    /\ logs' = IF Len(logs) > LogCap THEN SubSeq(logs, Len(logs) - LogCap + 1, Len(logs))
               ELSE logs
    /\ logsMu' = NoPipe
    /\ pumps' = [pumps EXCEPT ![s].pc = "scan"]
    /\ UNCHANGED <<svc, inst, eng, life, accepting, flow, adp, strm, lockv, appended, snapshot>>

\* GetLogs copies the buffer under logsMu
GetLogs ==
    /\ logsMu = NoPipe
    /\ snapshot' = [lines |-> logs, at |-> Len(appended)]
    /\ UNCHANGED <<svc, inst, eng, life, accepting, flow, adp, strm, lockv, logs, logsMu, pumps, appended>>

\* ---- one request through gateway, Invoke and the container's HTTP handler ----

\* everything but the request under way
noflow == <<svc, inst, eng, life, accepting, logv, adp, strm, lockv>>

\* invokeFunction decodes the posted body into event.Body and calls Invoke, or answers 400
GatewayInvoke(x) ==
    /\ flow.stage = "idle"
    /\ flow' = IF DecodeMap(x).ok
               THEN [flow EXCEPT !.stage = "invoke", !.via = "gateway", !.x = x,
                                 !.ev = [body |-> DecodeMap(x).val, requestId |-> Empty]]
               ELSE [flow EXCEPT !.stage = "replied", !.via = "gateway", !.x = x,
                                 !.reply = [written |-> TRUE, status |-> 400, headers |-> {},
                                            body |-> J("string", "Invalid request body")]]
    /\ UNCHANGED noflow

\* a direct call of Invoke with an event of the caller's making
CallInvoke(b, id) ==
    /\ flow.stage = "idle"
    /\ DecodeMap(b).ok
    /\ flow' = [flow EXCEPT !.stage = "invoke", !.via = "invoke",
                            !.ev = [body |-> b, requestId |-> id]]
    /\ UNCHANGED noflow

\* Invoke generates the request id when the event has none, marshals the event and POSTs
\* it with the id on the Kappa-Runtime-Aws-Request-Id header
InvokeSend ==
    /\ flow.stage = "invoke"
    /\ LET id == IF flow.ev.requestId = Empty THEN Uuid ELSE flow.ev.requestId IN
       flow' = [flow EXCEPT !.stage = "sent", !.hdr = id,
                            !.req = [method |-> "POST", krid |-> id, xrid |-> Empty,
                                     decodable |-> TRUE,
                                     ev |-> [body |-> flow.ev.body, requestId |-> id]]]
    /\ UNCHANGED noflow

\* an HTTP request made to the container's handler by any other client
Methods == {"POST", "GET"}
HandlerRequest(method, krid, xrid, decodable, b, id) ==
    /\ flow.stage = "idle"
    /\ DecodeMap(b).ok
    /\ flow' = [flow EXCEPT !.stage = "sent", !.via = "handler",
                            !.req = [method |-> method, krid |-> krid, xrid |-> xrid,
                                     decodable |-> decodable,
                                     ev |-> [body |-> b, requestId |-> id]]]
    /\ UNCHANGED noflow

\* user handlers: the example that echoes event.Body, one that answers 201, one that
\* answers 400 without a request id, one whose body is a string and that sets its own id
UserHandlers == {"echo", "created", "rejects", "text"}
JsonHeader == "Content-Type: application/json"
UserHandler(h, e) ==
    CASE h = "echo" ->
            [statusCode |-> 200, headers |-> {JsonHeader},
             body |-> [t |-> "object", v |-> "message",
                       input |-> [t |-> e.body.t, v |-> e.body.v]],
             requestId |-> e.requestId]
      [] h = "created" ->
            [statusCode |-> 201, headers |-> {JsonHeader}, body |-> J("object", "id:1"),
             requestId |-> e.requestId]
      [] h = "rejects" ->
            [statusCode |-> 400, headers |-> {}, body |-> J("object", "error:bad input"),
             requestId |-> Empty]
      [] OTHER ->
            [statusCode |-> 200, headers |-> {}, body |-> J("string", "plain"),
             requestId |-> Own]

\* the id taken from the headers of the request
RequestIdOf(req) == IF req.krid # Empty THEN req.krid ELSE <<"req-">> \o req.xrid

\* the decoded event whose id is overwritten by the id of the headers
EventFor_HeaderWins(req) ==
    [body |-> Widen(req.ev.body),
     requestId |-> IF req.krid # Empty THEN req.krid ELSE req.ev.requestId]

\* the decoded event, with the id of the headers when it has none of its own
EventFor(req) ==
    [body |-> Widen(req.ev.body),
     requestId |-> IF req.ev.requestId = Empty THEN RequestIdOf(req) ELSE req.ev.requestId]

\* the invocation handler that answers with the business status as transport status
createInvocationHandler_BusinessStatus(h, req) ==
    IF req.method # "POST"
    THEN [cres |-> [status |-> 405, kind |-> "empty", env |-> NoEnv, error |-> ""],
          called |-> FALSE, seen |-> NoEvent, hres |-> NoEnv]
    ELSE IF ~req.decodable
    THEN [cres |-> [status |-> 400, kind |-> "json", env |-> NoEnv,
                    error |-> "Invalid request body"],
          called |-> FALSE, seen |-> NoEvent, hres |-> NoEnv]
    ELSE [cres |-> [status |-> UserHandler(h, EventFor(req)).statusCode, kind |-> "json",
                    env |-> UserHandler(h, EventFor(req)), error |-> ""],
          called |-> TRUE, seen |-> EventFor(req), hres |-> UserHandler(h, EventFor(req))]

\* the invocation handler without the check of the method
createInvocationHandler_AnyMethod(h, req) ==
    IF ~req.decodable
    THEN [cres |-> [status |-> 400, kind |-> "json", env |-> NoEnv,
                    error |-> "Invalid request body"],
          called |-> FALSE, seen |-> NoEvent, hres |-> NoEnv]
    ELSE [cres |-> [status |-> 200, kind |-> "json", env |-> UserHandler(h, EventFor(req)),
                    error |-> ""],
          called |-> TRUE, seen |-> EventFor(req), hres |-> UserHandler(h, EventFor(req))]

\* createInvocationHandler(handler) serving one request
createInvocationHandler(h, req) ==
    IF req.method # "POST"
    THEN [cres |-> [status |-> 405, kind |-> "empty", env |-> NoEnv, error |-> ""],
          called |-> FALSE, seen |-> NoEvent, hres |-> NoEnv]
    ELSE IF ~req.decodable
    THEN [cres |-> [status |-> 400, kind |-> "json", env |-> NoEnv,
                    error |-> "Invalid request body"],
          called |-> FALSE, seen |-> NoEvent, hres |-> NoEnv]
    ELSE [cres |-> [status |-> 200, kind |-> "json", env |-> UserHandler(h, EventFor(req)),
                    error |-> ""],
          called |-> TRUE, seen |-> EventFor(req), hres |-> UserHandler(h, EventFor(req))]

\* the container runs package handler with user handler h
HandlerServe(h) ==
    /\ flow.stage = "sent"
    /\ LET r == createInvocationHandler(h, flow.req) IN
       flow' = [flow EXCEPT !.stage = "responded", !.by = h, !.cres = r.cres,
                            !.called = r.called, !.seen = r.seen, !.hres = r.hres]
    /\ UNCHANGED noflow

\* the container runs any other server: its answer is not JSON, or a JSON object with or
\* without statusCode and requestId
ContainerOther(kind, sc, hs, b, id) ==
    /\ flow.stage = "sent"
    /\ flow.via # "handler"
    /\ flow' = [flow EXCEPT !.stage = "responded", !.by = "other",
                            !.cres = IF kind = "json"
                                     THEN [status |-> 200, kind |-> "json",
                                           env |-> [statusCode |-> sc, headers |-> hs,
                                                    body |-> b, requestId |-> id],
                                           error |-> ""]
                                     ELSE [status |-> 200, kind |-> kind, env |-> NoEnv,
                                           error |-> ""]]
    /\ UNCHANGED noflow

\* the body member of a KappaResponse: absent it stays a nil map, which encodes as null
DecodeBody(b) == IF b.t = "absent" THEN [ok |-> TRUE, val |-> J("null", "null")] ELSE DecodeMap(b)

\* Invoke that returns the decoded answer as it is
InvokeReceive_NoBackfill(c, id) ==
    IF c.kind # "json" \/ ~DecodeBody(c.env.body).ok
    THEN [err |-> TRUE, env |-> NoEnv]
    ELSE [err |-> FALSE,
          env |-> [statusCode |-> c.env.statusCode, headers |-> c.env.headers,
                   body |-> DecodeBody(c.env.body).val, requestId |-> c.env.requestId]]

\* Invoke decodes the answer, whatever its HTTP status, and fills in the request id
InvokeReceive(c, id) ==
    IF c.kind # "json" \/ ~DecodeBody(c.env.body).ok
    THEN [err |-> TRUE, env |-> NoEnv]
    ELSE [err |-> FALSE,
          env |-> [statusCode |-> c.env.statusCode, headers |-> c.env.headers,
                   body |-> DecodeBody(c.env.body).val,
                   requestId |-> IF c.env.requestId = Empty THEN id ELSE c.env.requestId]]

InvokeReturn ==
    /\ flow.stage = "responded"
    /\ flow.via # "handler"
    /\ flow' = [flow EXCEPT !.stage = "returned",
                            !.out = InvokeReceive(flow.cres, flow.req.ev.requestId)]
    /\ UNCHANGED noflow

\* http.ResponseWriter: WriteHeader panics on a code outside 100..999, and a 1xx, 204 or
\* 304 reply carries no body
WriteHeaderPanics(code) == code < 100 \/ code > 999
BodyAllowed(code) == ~(code \in 100..199 \/ code = 204 \/ code = 304)

\* invokeFunction writes the reply: 500 on an error of Invoke, else the envelope
WriteReply(out) ==
    IF out.err
    THEN [written |-> TRUE, status |-> 500, headers |-> {},
          body |-> J("string", "Function invocation failed")]
    ELSE IF WriteHeaderPanics(out.env.statusCode)
    THEN NoReply
    ELSE [written |-> TRUE, status |-> out.env.statusCode, headers |-> out.env.headers,
          body |-> IF BodyAllowed(out.env.statusCode) THEN out.env.body ELSE NoJson]

GatewayReply ==
    /\ flow.stage = "returned"
    /\ flow.via = "gateway"
    /\ flow' = [flow EXCEPT !.stage = "replied", !.reply = WriteReply(flow.out)]
    /\ UNCHANGED noflow

\* ---- the environment: a container's task dies or is killed out of band ----
Kill(c) ==
    /\ engine[c] = "running"
    /\ MayFail
    /\ faults' = faults + 1
    /\ engine' = [engine EXCEPT ![c] = "exited"]
    /\ UNCHANGED <<svc, inst, owner, pc, loc, obs>>
    /\ UNCHANGED rest

\* ---- a handler or call has returned; its goroutine ends ----
Return(p) ==
    /\ pc[p] = "done"
    /\ pc' = [pc EXCEPT ![p] = "idle"]
    /\ loc' = [loc EXCEPT ![p] = NoLoc]
    /\ obs' = [obs EXCEPT ![p] = NoObs]
    /\ UNCHANGED <<svc, inst, eng>>
    /\ UNCHANGED rest

\* steps of Start, Stop, Invoke and the idle timer, shared by every caller
Lifecycle ==
    \/ \E p \in Procs : InvokeCheck(p)
    \/ \E p \in Procs : InvokeReset(p)
    \/ \E p \in Procs : InvokePost(p)
    \/ \E p \in Procs : InvokeResponse(p)
    \/ \E p \in Procs : InvokeFailed(p)
    \/ \E p \in Procs : InvokeRetryPost(p)
    \/ \E p \in Procs : InvokeRetryResponse(p)
    \/ \E p \in Procs : InvokeLoad(p)
    \/ \E p \in Procs : InvokeStore(p)
    \/ \E p \in Procs, i \in Inst : TimerFire(p, i)
    \/ \E p \in Procs : TimerCallback(p)
    \/ \E p \in Procs : StartBegin(p)
    \/ \E p \in Procs : StartFinish(p)
    \/ \E p \in Procs : StopBegin(p)
    \/ \E p \in Procs : StopEngine(p)
    \/ \E c \in Cont : Kill(c)
    \/ \E p \in Procs : Return(p)

\* the service: requests arrive at the gateway of KappaService
Next ==
    \/ \E p \in Procs, nm \in Names, in \in RegInputs, port \in {0, DefaultPort} :
          Register(p, nm, in, port)
    \/ \E p \in Procs, nm \in Names, bodyOk \in BOOLEAN : InvokeLookup(p, nm, bodyOk)
    \/ \E p \in Procs, nm \in Names : DeleteLookup(p, nm)
    \/ \E p \in Procs : DeleteIsRunning(p)
    \/ \E p \in Procs : DeleteRemove(p)
    \/ Lifecycle

Spec == Init /\ [][Next]_vars

\* the registry alone: concurrent Register and Delete requests, no invocation
NextRegistry ==
    \/ \E p \in Procs, nm \in Names, in \in RegInputs, port \in {0, DefaultPort} :
          Register(p, nm, in, port)
    \/ \E p \in Procs, nm \in Names : DeleteLookup(p, nm)
    \/ \E p \in Procs : DeleteIsRunning(p)
    \/ \E p \in Procs : DeleteRemove(p)
    \/ \E p \in Procs : Return(p)

RegistrySpec == Init /\ [][NextRegistry]_vars

\* one registered instance driven through the API of package kappa
InitInstance ==
    /\ functions = [n \in Names |-> 1]
    /\ created = 1
    /\ Name = [i \in Inst |-> IF i = 1 THEN "f" ELSE "-"]
    /\ Port = [i \in Inst |-> IF i = 1 THEN DefaultPort ELSE 0]
    /\ isRunning = [i \in Inst |-> FALSE]
    /\ isRunningMu = [i \in Inst |-> NoProc]
    /\ container = [i \in Inst |-> NoCont]
    /\ containerURL = [i \in Inst |-> FALSE]
    /\ idleTimer = [i \in Inst |-> "nil"]
    /\ idleTimeout = [i \in Inst |-> "default"]
    /\ requestsProcessed = [i \in Inst |-> 0]
    /\ engine = [c \in Cont |-> "none"]
    /\ owner = [c \in Cont |-> NoInst]
    /\ faults = 0
    /\ pc = [p \in Procs |-> "idle"]
    /\ loc = [p \in Procs |-> NoLoc]
    /\ obs = [p \in Procs |-> NoObs]
    /\ InitRest

NextInstance ==
    \/ \E p \in Procs, nm \in Names, bodyOk \in BOOLEAN : InvokeLookup(p, nm, bodyOk)
    \/ \E p \in Procs, i \in Inst : CallStart(p, i)
    \/ \E p \in Procs, i \in Inst : CallStop(p, i)
    \/ \E p \in Procs, i \in Inst, d \in Durations : SetIdleTimeout(p, i, d)
    \/ Lifecycle

InstanceSpec == InitInstance /\ [][NextInstance]_vars

\* one instance after its first successful Start: its container writes on both pipes while
\* readers call GetLogs
InitStarted ==
    /\ functions = [n \in Names |-> 1]
    /\ created = 1
    /\ Name = [i \in Inst |-> IF i = 1 THEN "f" ELSE "-"]
    /\ Port = [i \in Inst |-> IF i = 1 THEN DefaultPort ELSE 0]
    /\ isRunning = [i \in Inst |-> i = 1]
    /\ isRunningMu = [i \in Inst |-> NoProc]
    /\ container = [i \in Inst |-> IF i = 1 THEN 1 ELSE NoCont]
    /\ containerURL = [i \in Inst |-> i = 1]
    /\ idleTimer = [i \in Inst |-> IF i = 1 THEN "armed" ELSE "nil"]
    /\ idleTimeout = [i \in Inst |-> "default"]
    /\ requestsProcessed = [i \in Inst |-> 0]
    /\ engine = [c \in Cont |-> IF c = 1 THEN "running" ELSE "none"]
    /\ owner = [c \in Cont |-> IF c = 1 THEN 1 ELSE NoInst]
    /\ faults = 0
    /\ pc = [p \in Procs |-> "idle"]
    /\ loc = [p \in Procs |-> NoLoc]
    /\ obs = [p \in Procs |-> NoObs]
    /\ InitRest

NextLogs ==
    \/ \E s \in Pipes : PumpScan(s)
    \/ \E s \in Pipes : CallbackAppend(s)
    \/ \E s \in Pipes : CallbackTrim(s)
    \/ GetLogs

LogSpec == InitStarted /\ [][NextLogs]_vars

\* one request at a time on its way from a client to the user handler and back
MapBodies == {J("object", "name:TestUser"), J("null", "null")}
NextEnvelope ==
    \/ \E x \in JsonValues : GatewayInvoke(x)
    \/ \E b \in MapBodies, id \in EvIds : CallInvoke(b, id)
    \/ InvokeSend
    \/ \E method \in Methods, krid \in KridVals, xrid \in XridVals, decodable \in BOOLEAN,
          b \in MapBodies, id \in EvIds : HandlerRequest(method, krid, xrid, decodable, b, id)
    \/ \E h \in UserHandlers : HandlerServe(h)
    \/ \E kind \in {"json", "garbage"}, sc \in {0, 200, 204},
          hs \in {{}, {"X-Custom: v"}},
          b \in {J("object", "k:v"), J("string", "plain"), NoJson}, id \in {Empty, Own} :
          ContainerOther(kind, sc, hs, b, id)
    \/ InvokeReturn
    \/ GatewayReply

EnvelopeSpec == InitInstance /\ [][NextEnvelope]_vars

\* the service with one registered function receives invocations and a shutdown signal
NextShutdown ==
    \/ \E p \in Procs, nm \in Names, bodyOk \in BOOLEAN : InvokeLookup(p, nm, bodyOk)
    \/ \E p \in Procs : ShutdownBegin(p)
    \/ \E p \in Procs : ShutdownNext(p)
    \/ \E p \in Procs : ShutdownIsRunning(p)
    \/ \E p \in Procs : ShutdownServer(p)
    \/ \E p \in Procs : ShutdownWait(p)
    \/ Lifecycle

ShutdownSpec == InitInstance /\ [][NextShutdown]_vars

\* ---- scheduling: the runtime runs every runnable goroutine and fires every armed timer;
\* ---- requests, direct calls and out-of-band kills are up to the environment
Step(p) ==
    \/ InvokeCheck(p) \/ InvokeReset(p) \/ InvokePost(p) \/ InvokeResponse(p)
    \/ InvokeFailed(p) \/ InvokeRetryPost(p) \/ InvokeRetryResponse(p)
    \/ InvokeLoad(p) \/ InvokeStore(p) \/ TimerCallback(p)
    \/ StartBegin(p) \/ StartFinish(p) \/ StopBegin(p) \/ StopEngine(p) \/ Return(p)

Fairness ==
    /\ \A p \in Procs : WF_vars(Step(p))
    /\ WF_vars(\E p \in Procs, i \in Inst : TimerFire(p, i))

FairInstanceSpec == InstanceSpec /\ Fairness

\* ---- the container adapter (cont.Container) and the part of Start that drives it ----

Dirs == 1..MaxDirs
Range(q) == {q[k] : k \in 1..Len(q)}

\* everything but the adapter and the fault budget
others == <<svc, inst, engine, owner, life, accepting, logv, flow, strm, lockv>>

\* a directory name os.MkdirTemp can still hand out
FreshDir(d) == d \notin disk /\ d \notin Range(tempDirs)

\* the adapter operation returns to its caller with the locals l
Returns(l) ==
    /\ apc' = "idle"
    /\ aloc' = NoALoc
    /\ aret' = [l EXCEPT !.started = aret.started \/ (l.op \in {"start", "kstart"} /\ l.errs = <<>>)]

\* NewContainer validates the config and connects to the engine; it allocates nothing there
NewContainer ==
    /\ apc = "idle"
    /\ handle = "none"
    /\ \/ /\ handle' = "live"
          /\ Returns([NoALoc EXCEPT !.op = "new"])
          /\ UNCHANGED faults
       \/ /\ MayFail
          /\ faults' = faults + 1
          /\ Returns([NoALoc EXCEPT !.op = "new", !.errs = <<"connect">>])
          /\ UNCHANGED handle
    /\ UNCHANGED <<others, engCont, engTask, cContainer, cTask, tempDirs, disk>>

\* the caller makes a temp directory and registers it with a handle it has not started yet
RegisterTmpDir(d) ==
    /\ apc = "idle"
    /\ handle = "live"
    /\ ~cContainer
    /\ FreshDir(d)
    /\ disk' = disk \cup {d}
    /\ tempDirs' = Append(tempDirs, d)
    /\ UNCHANGED <<others, faults, handle, engCont, engTask, cContainer, cTask, apc, aloc, aret>>

\* KappaFunction.Start, not running: os.MkdirTemp
StartMkdirTemp ==
    /\ apc = "idle"
    /\ handle = "none"
    /\ \/ /\ \E d \in Dirs :
                /\ FreshDir(d)
                /\ disk' = disk \cup {d}
                /\ aloc' = [NoALoc EXCEPT !.op = "kstart", !.tmp = d]
          /\ apc' = "ks_copy"
          /\ UNCHANGED <<faults, aret>>
       \/ /\ MayFail
          /\ faults' = faults + 1
          /\ Returns([NoALoc EXCEPT !.op = "kstart", !.errs = <<"mkdir">>])
          /\ UNCHANGED disk
    /\ UNCHANGED <<others, handle, engCont, engTask, cContainer, cTask, tempDirs>>

\* ... the binary is linked or copied into the directory and made executable
StartCopyBinary ==
    /\ apc = "ks_copy"
    /\ \/ /\ apc' = "ks_new"
          /\ UNCHANGED <<faults, aloc, aret>>
       \/ /\ MayFail
          /\ faults' = faults + 1
          /\ Returns([aloc EXCEPT !.errs = <<"copy">>])
    /\ UNCHANGED <<others, handle, engCont, engTask, cContainer, cTask, tempDirs, disk>>

\* ... cont.NewContainer, RegisterTmpDir on the new handle, and the call of Container.Start
StartNewContainer ==
    /\ apc = "ks_new"
    /\ \/ /\ handle' = "live"
          /\ tempDirs' = <<aloc.tmp>>
          /\ aloc' = [aloc EXCEPT !.ret = "kstart"]
          /\ apc' = "cs_create"
          /\ UNCHANGED <<faults, aret>>
       \/ /\ MayFail
          /\ faults' = faults + 1
          /\ Returns([aloc EXCEPT !.errs = <<"new">>])
          /\ UNCHANGED <<handle, tempDirs>>
    /\ UNCHANGED <<others, engCont, engTask, cContainer, cTask, disk>>

\* Container.Start is called on a handle that was not started before
ContStart ==
    /\ apc = "idle"
    /\ handle = "live"
    /\ ~cContainer
    /\ apc' = "cs_create"
    /\ aloc' = [NoALoc EXCEPT !.op = "start"]
    /\ UNCHANGED <<others, faults, handle, engCont, engTask, cContainer, cTask, tempDirs, disk,
                   aret>>

\* Container.Start returns e: to the test that called it, or into KappaFunction.Start, which
\* returns the error and lets go of the handle, or goes on to stream the logs
AfterContStart(e) ==
    IF aloc.ret = "kstart" /\ e = <<>>
    THEN /\ apc' = "ks_stream"
         /\ UNCHANGED <<aloc, aret, handle>>
    ELSE /\ Returns([aloc EXCEPT !.errs = e])
         /\ handle' = IF aloc.ret = "kstart" THEN "dropped" ELSE handle

\* Container.Start: the image is looked up or pulled, the container and its snapshot are
\* created and kept in c.container
ContStartCreate ==
    /\ apc = "cs_create"
    /\ \/ /\ engCont' = TRUE
          /\ cContainer' = TRUE
          /\ apc' = "cs_task"
          /\ UNCHANGED <<faults, aloc, aret, handle>>
       \/ /\ MayFail
          /\ faults' = faults + 1
          /\ AfterContStart(<<"create">>)
          /\ UNCHANGED <<engCont, cContainer>>
    /\ UNCHANGED <<others, engTask, cTask, tempDirs, disk>>

\* ... the task is created on two pipes, the log pumps are spawned, c.task is set
ContStartTask ==
    /\ apc = "cs_task"
    /\ \/ /\ engTask' = "created"
          /\ cTask' = TRUE
          /\ apc' = "cs_run"
          /\ UNCHANGED <<faults, aloc, aret, handle>>
       \/ /\ MayFail
          /\ faults' = faults + 1
          /\ AfterContStart(<<"task">>)
          /\ UNCHANGED <<engTask, cTask>>
    /\ UNCHANGED <<others, engCont, cContainer, tempDirs, disk>>

\* ... the task is started
ContStartRun ==
    /\ apc = "cs_run"
    /\ \/ /\ engTask' = "running"
          /\ AfterContStart(<<>>)
          /\ UNCHANGED faults
       \/ /\ MayFail
          /\ faults' = faults + 1
          /\ AfterContStart(<<"run">>)
          /\ UNCHANGED engTask
    /\ UNCHANGED <<others, engCont, cContainer, cTask, tempDirs, disk>>

\* KappaFunction.Start: StreamLogs fails only on a handle without a task; then the handle is
\* kept in lf.container
StartStreamLogs ==
    /\ apc = "ks_stream"
    /\ IF cTask
       THEN /\ Returns(aloc)
            /\ UNCHANGED handle
       ELSE /\ Returns([aloc EXCEPT !.errs = <<"stream">>])
            /\ handle' = "dropped"
    /\ UNCHANGED <<others, faults, engCont, engTask, cContainer, cTask, tempDirs, disk>>

\* the process of the task exits, by itself or from a signal
TaskExit ==
    /\ engTask = "running"
    /\ engTask' = "stopped"
    /\ UNCHANGED <<others, faults, handle, engCont, cContainer, cTask, tempDirs, disk, apc, aloc,
                   aret>>

\* Container.Stop is called with removeOnStop = rm
ContStop(rm) ==
    /\ apc = "idle"
    /\ handle = "live"
    /\ apc' = "st_status"
    /\ aloc' = [NoALoc EXCEPT !.op = "stop", !.rm = rm, !.had = aret.started /\ engCont]
    /\ UNCHANGED <<others, faults, handle, engCont, engTask, cContainer, cTask, tempDirs, disk,
                   aret>>

\* the caller goes into Remove with the locals l
EnterRemove(l) ==
    /\ apc' = "rm_task"
    /\ aloc' = [l EXCEPT !.dirs = Range(tempDirs)]
    /\ UNCHANGED aret

\* Stop found nothing to signal: it removes the container when asked to, and returns nil
StopCleanup ==
    IF aloc.rm THEN EnterRemove([aloc EXCEPT !.ret = "stop"]) ELSE Returns(aloc)

\* Stop: no task, no stop; else task.Status, whose error is logged at most and leaves the
\* zero status behind; a task that is not Running is not signalled
ContStopStatus ==
    /\ apc = "st_status"
    /\ \/ /\ ~cTask
          /\ Returns([aloc EXCEPT !.errs = <<"no task">>])
          /\ UNCHANGED faults
       \/ /\ cTask
          /\ engTask # "running"
          /\ StopCleanup
          /\ UNCHANGED faults
       \/ /\ cTask
          /\ engTask = "running"
          /\ apc' = "st_kill"
          /\ UNCHANGED <<faults, aloc, aret>>
       \/ /\ cTask
          /\ engTask # "none"
          /\ MayFail
          /\ faults' = faults + 1
          /\ StopCleanup
    /\ UNCHANGED <<others, handle, engCont, engTask, cContainer, cTask, tempDirs, disk>>

\* Stop: task.Kill with SIGTERM or SIGKILL; not-found means the process has finished
ContStopKill ==
    /\ apc = "st_kill"
    /\ \/ /\ engTask = "running"
          /\ apc' = "st_wait"
          /\ UNCHANGED <<faults, aloc, aret>>
       \/ /\ engTask # "running"
          /\ StopCleanup
          /\ UNCHANGED faults
       \/ /\ MayFail
          /\ faults' = faults + 1
          /\ Returns([aloc EXCEPT !.errs = <<"kill">>])
    /\ UNCHANGED <<others, handle, engCont, engTask, cContainer, cTask, tempDirs, disk>>

\* Stop: task.Wait, then the exit status arrives or the timeout fires and SIGKILL is sent
\* without a further wait; then Remove when asked to
ContStopWait ==
    /\ apc = "st_wait"
    /\ \/ /\ engTask = "stopped"
          /\ StopCleanup
          /\ UNCHANGED faults
       \/ /\ engTask = "running"
          /\ StopCleanup
          /\ UNCHANGED faults
       \/ /\ MayFail
          /\ faults' = faults + 1
          /\ \E e \in {"wait", "force kill"} : Returns([aloc EXCEPT !.errs = <<e>>])
    /\ UNCHANGED <<others, handle, engCont, engTask, cContainer, cTask, tempDirs, disk>>

\* Container.Remove is called
ContRemove ==
    /\ apc = "idle"
    /\ handle = "live"
    /\ EnterRemove([NoALoc EXCEPT !.op = "remove"])
    /\ UNCHANGED <<others, faults, handle, engCont, engTask, cContainer, cTask, tempDirs, disk>>

\* Remove: with a task handle, task.Status and, when that succeeds, task.Delete, which the
\* engine refuses for a task that has not stopped
RemoveTask ==
    /\ apc = "rm_task"
    /\ apc' = "rm_cont"
    /\ \/ /\ ~cTask \/ engTask = "none"
          /\ UNCHANGED <<faults, engTask, aloc>>
       \/ /\ cTask
          /\ engTask # "none"
          /\ MayFail
          /\ faults' = faults + 1
          /\ UNCHANGED <<engTask, aloc>>
       \/ /\ cTask
          /\ engTask = "stopped"
          /\ engTask' = "none"
          /\ aloc' = [aloc EXCEPT !.tried = Append(@, "task")]
          /\ UNCHANGED faults
       \/ /\ cTask
          /\ engTask \in {"created", "running"} \/ (engTask = "stopped" /\ MayFail)
          /\ faults' = IF engTask = "stopped" THEN faults + 1 ELSE faults
          /\ aloc' = [aloc EXCEPT !.tried = Append(@, "task"), !.errs = Append(@, "task"),
                                  !.failed = Append(@, "task")]
          /\ UNCHANGED engTask
    /\ UNCHANGED <<others, handle, engCont, cContainer, cTask, tempDirs, disk, aret>>

\* Remove: with a container handle, container.Delete with snapshot cleanup, which the
\* engine refuses while the container has a task
RemoveContainer ==
    /\ apc = "rm_cont"
    /\ apc' = "rm_clean"
    /\ \/ /\ ~cContainer
          /\ UNCHANGED <<faults, engCont, aloc>>
       \/ /\ cContainer
          /\ engTask = "none"
          /\ engCont' = FALSE
          /\ aloc' = [aloc EXCEPT !.tried = Append(@, "container")]
          /\ UNCHANGED faults
       \/ /\ cContainer
          /\ engTask # "none" \/ (engCont /\ MayFail)
          /\ faults' = IF engTask = "none" THEN faults + 1 ELSE faults
          /\ aloc' = [aloc EXCEPT !.tried = Append(@, "container"),
                                  !.errs = Append(@, "container"),
                                  !.failed = Append(@, "container")]
          /\ UNCHANGED engCont
    /\ UNCHANGED <<others, handle, engTask, cContainer, cTask, tempDirs, disk, aret>>

\* Container.cleanup: os.RemoveAll of every registered directory, of which those in bad
\* fail, and c.tempDirs = nil
cleanup(bad) ==
    /\ bad \subseteq Range(tempDirs) \cap disk
    /\ Cardinality(bad) <= MaxFaults - faults
    /\ faults' = faults + Cardinality(bad)
    /\ disk' = disk \ (Range(tempDirs) \ bad)
    /\ tempDirs' = <<>>

\* Remove: cleanup, and the join of the errors collected is returned; a Stop that called
\* Remove returns what Remove returned
RemoveCleanup ==
    /\ apc = "rm_clean"
    /\ \E bad \in SUBSET Dirs :
          /\ cleanup(bad)
          /\ Returns([aloc EXCEPT !.tried = Append(@, "cleanup"),
                                  !.errs = IF bad = {} THEN @ ELSE Append(@, "tempdir"),
                                  !.failed = IF bad = {} THEN @ ELSE Append(@, "tempdir")])
    /\ UNCHANGED <<others, handle, engCont, engTask, cContainer, cTask>>

\* Container.Close: c.logs = nil under logMu, cleanup, and the engine client is closed
ContClose ==
    /\ apc = "idle"
    /\ handle = "live"
    /\ handle' = "closed"
    /\ logMu = NoThread
    /\ cLogs' = <<>>
    /\ \E bad \in SUBSET Dirs :
          /\ cleanup(bad)
          /\ Returns([NoALoc EXCEPT !.op = "close",
                                    !.errs = IF bad = {} THEN <<>> ELSE <<"tempdir">>])
    /\ UNCHANGED <<svc, inst, engine, owner, life, accepting, logv, flow, engCont, engTask,
                   cContainer, cTask, logMu, callbackMu, callbacks, thr, delivered, lockv>>

\* the finalizer of a handle nobody holds any more runs cleanup, at a time of the
\* runtime's choosing or never
Finalizer ==
    /\ handle = "dropped"
    /\ handle' = "finalized"
    /\ \E bad \in SUBSET Dirs : cleanup(bad)
    /\ UNCHANGED <<others, engCont, engTask, cContainer, cTask, apc, aloc, aret>>

NextAdapter ==
    \/ NewContainer
    \/ \E d \in Dirs : RegisterTmpDir(d)
    \/ StartMkdirTemp
    \/ StartCopyBinary
    \/ StartNewContainer
    \/ ContStart
    \/ ContStartCreate
    \/ ContStartTask
    \/ ContStartRun
    \/ StartStreamLogs
    \/ TaskExit
    \/ \E rm \in BOOLEAN : ContStop(rm)
    \/ ContStopStatus
    \/ ContStopKill
    \/ ContStopWait
    \/ ContRemove
    \/ RemoveTask
    \/ RemoveContainer
    \/ RemoveCleanup
    \/ ContClose
    \/ Finalizer

AdapterSpec == Init /\ [][NextAdapter]_vars

\* ---- the log store and the log callbacks of the container adapter ----

\* everything but the log state of the adapter
nostrm == <<svc, inst, eng, life, accepting, logv, flow, adp, lockv>>

\* the write end of a pipe is held by the cio of the task and by nobody else: Start keeps
\* neither end, and no operation of the handle closes one. The reader sees EOF at the
\* earliest when the engine has deleted the task and the cio has let go of its streams
AtEOF == cTask /\ engTask = "none"

\* processLogs of pipe t, spawned with the task: scanner.Scan returns the next line the
\* process of the task has written, or false at EOF, which ends the goroutine; else it blocks
processLogsScan(t) ==
    /\ cTask
    /\ thr[t].pc = "idle"
    /\ IF AtEOF
       THEN thr' = [thr EXCEPT ![t].pc = "done"]
       ELSE /\ engTask \in {"running", "stopped"}
            /\ thr[t].k < MaxLines
            /\ thr' = [thr EXCEPT ![t].pc = "append", ![t].k = @ + 1,
                                   ![t].line = <<t, thr[t].k + 1>>]
    /\ UNCHANGED <<nostrm, cLogs, logMu, callbackMu, callbacks, delivered>>

processLogsAppend_Prepend(t) ==
    /\ thr[t].pc = "append"
    /\ logMu = NoThread
    /\ logMu' = t
    /\ cLogs' = <<thr[t].line>> \o cLogs
    /\ thr' = [thr EXCEPT ![t].pc = "appended"]
    /\ UNCHANGED <<nostrm, callbackMu, callbacks, delivered>>

\* ... the line is appended to c.logs under logMu
processLogsAppend(t) ==
    /\ thr[t].pc = "append"
    /\ logMu = NoThread
    /\ logMu' = t
    /\ cLogs' = Append(cLogs, thr[t].line)
    /\ thr' = [thr EXCEPT ![t].pc = "appended"]
    /\ UNCHANGED <<nostrm, callbackMu, callbacks, delivered>>

processLogsUnlock(t) ==
    /\ thr[t].pc = "appended"
    /\ logMu' = NoThread
    /\ thr' = [thr EXCEPT ![t].pc = "copy"]
    /\ UNCHANGED <<nostrm, cLogs, callbackMu, callbacks, delivered>>

\* ... c.callbacks is copied under callbackMu
processLogsCopy(t) ==
    /\ thr[t].pc = "copy"
    /\ callbackMu = NoThread
    /\ callbackMu' = t
    /\ thr' = [thr EXCEPT ![t].pc = "copied", ![t].cbs = callbacks]
    /\ UNCHANGED <<nostrm, cLogs, logMu, callbacks, delivered>>

processLogsRelease(t) ==
    /\ thr[t].pc = "copied"
    /\ callbackMu' = NoThread
    /\ thr' = [thr EXCEPT ![t].pc = "dispatch", ![t].i = 1]
    /\ UNCHANGED <<nostrm, cLogs, logMu, callbacks, delivered>>

\* ... and every callback of the copy is called with the line
processLogsDispatch(t) ==
    /\ thr[t].pc = "dispatch"
    /\ thr' = [thr EXCEPT ![t] =
                 IF thr[t].i <= Len(thr[t].cbs)
                 THEN [@ EXCEPT !.pc = "in_cb", !.cb = thr[t].cbs[thr[t].i], !.from = "dispatch"]
                 ELSE [NoThr EXCEPT !.k = thr[t].k]]
    /\ UNCHANGED <<nostrm, cLogs, logMu, callbackMu, callbacks, delivered>>

\* the callback runs on the goroutine that called it; GetLogs takes logMu for the copy
CallbackRun(t) ==
    /\ thr[t].pc = "in_cb"
    /\ thr[t].cb = "getlogs" => logMu = NoThread
    /\ thr' = [thr EXCEPT ![t].pc = thr[t].from, ![t].i = @ + 1, ![t].from = "-"]
    /\ delivered' = [delivered EXCEPT ![thr[t].cb] = Append(@, thr[t].line)]
    /\ UNCHANGED <<nostrm, cLogs, logMu, callbackMu, callbacks>>

\* StreamLogs with a callback, on a handle with a task: logMu is taken ...
StreamLogs(cb) ==
    /\ cTask
    /\ thr["caller"].pc = "idle"
    /\ cb \notin Range(callbacks)
    /\ logMu = NoThread
    /\ logMu' = "caller"
    /\ thr' = [thr EXCEPT !["caller"] = [NoThr EXCEPT !.pc = "replay", !.cb = cb, !.i = 1]]
    /\ UNCHANGED <<nostrm, cLogs, callbackMu, callbacks, delivered>>

\* ... the callback is called with every stored line, then logMu is released
StreamLogsReplay ==
    /\ thr["caller"].pc = "replay"
    /\ IF thr["caller"].i <= Len(cLogs)
       THEN /\ thr' = [thr EXCEPT !["caller"].pc = "in_cb", !["caller"].from = "replay",
                                  !["caller"].line = cLogs[thr["caller"].i]]
            /\ UNCHANGED logMu
       ELSE /\ thr' = [thr EXCEPT !["caller"].pc = "add"]
            /\ logMu' = NoThread
    /\ UNCHANGED <<nostrm, cLogs, callbackMu, callbacks, delivered>>

\* ... and addCallback appends the callback to c.callbacks under callbackMu
addCallback ==
    /\ thr["caller"].pc = "add"
    /\ callbackMu = NoThread
    /\ callbacks' = Append(callbacks, thr["caller"].cb)
    /\ thr' = [thr EXCEPT !["caller"] = NoThr]
    /\ UNCHANGED <<nostrm, cLogs, logMu, callbackMu, delivered>>

\* a container handle whose Start has returned nil
InitStream ==
    /\ InitService
    /\ InitGateway
    /\ InitLogStore
    /\ InitLocks
    /\ handle = "live"
    /\ engCont = TRUE
    /\ engTask = "running"
    /\ cContainer = TRUE
    /\ cTask = TRUE
    /\ tempDirs = <<>>
    /\ disk = {}
    /\ apc = "idle"
    /\ aloc = NoALoc
    /\ aret = [NoALoc EXCEPT !.op = "start", !.started = TRUE]

NextStream ==
    \/ \E t \in Pipes : processLogsScan(t)
    \/ \E t \in Pipes : processLogsAppend(t)
    \/ \E t \in Pipes : processLogsUnlock(t)
    \/ \E t \in Pipes : processLogsCopy(t)
    \/ \E t \in Pipes : processLogsRelease(t)
    \/ \E t \in Pipes : processLogsDispatch(t)
    \/ \E t \in Threads : CallbackRun(t)
    \/ \E cb \in CbKinds : StreamLogs(cb)
    \/ StreamLogsReplay
    \/ addCallback

StreamSpec == InitStream /\ [][NextStream]_vars

\* the log API as KappaFunction.Start uses it: one StreamLogs call with a callback that
\* keeps the line
NextDelivery ==
    \/ \E t \in Pipes : processLogsScan(t)
    \/ \E t \in Pipes : processLogsAppend(t)
    \/ \E t \in Pipes : processLogsUnlock(t)
    \/ \E t \in Pipes : processLogsCopy(t)
    \/ \E t \in Pipes : processLogsRelease(t)
    \/ \E t \in Pipes : processLogsDispatch(t)
    \/ \E t \in Threads : CallbackRun(t)
    \/ StreamLogs("plain")
    \/ StreamLogsReplay
    \/ addCallback

DeliverySpec == InitStream /\ [][NextDelivery]_vars

\* a handle whose Start has returned nil, in an engine that fails at most once more; the
\* pumps have stored all but the last line the process of the task writes on each pipe
Written == MaxLines - 1
InitPumps ==
    /\ functions = [n \in Names |-> NoInst]
    /\ created = 0
    /\ Name = [i \in Inst |-> "-"]
    /\ Port = [i \in Inst |-> 0]
    /\ isRunning = [i \in Inst |-> FALSE]
    /\ isRunningMu = [i \in Inst |-> NoProc]
    /\ container = [i \in Inst |-> NoCont]
    /\ containerURL = [i \in Inst |-> FALSE]
    /\ idleTimer = [i \in Inst |-> "nil"]
    /\ idleTimeout = [i \in Inst |-> "default"]
    /\ requestsProcessed = [i \in Inst |-> 0]
    /\ engine = [c \in Cont |-> "none"]
    /\ owner = [c \in Cont |-> NoInst]
    /\ faults = MaxFaults - 1
    /\ pc = [p \in Procs |-> "idle"]
    /\ loc = [p \in Procs |-> NoLoc]
    /\ obs = [p \in Procs |-> NoObs]
    /\ InitGateway
    /\ cLogs = [i \in 1..(2 * Written) |->
                  IF i <= Written THEN <<"stdout", i>> ELSE <<"stderr", i - Written>>]
    /\ logMu = NoThread
    /\ callbackMu = NoThread
    /\ callbacks = <<>>
    /\ thr = [t \in Threads |-> IF t \in Pipes THEN [NoThr EXCEPT !.k = Written] ELSE NoThr]
    /\ delivered = [cb \in CbKinds |-> <<>>]
    /\ InitLocks
    /\ handle = "live"
    /\ engCont = TRUE
    /\ engTask = "running"
    /\ cContainer = TRUE
    /\ cTask = TRUE
    /\ tempDirs = <<>>
    /\ disk = {}
    /\ apc = "idle"
    /\ aloc = NoALoc
    /\ aret = [NoALoc EXCEPT !.op = "start", !.started = TRUE]

\* a started handle through Stop, Remove and Close while the pumps of its task run
NextPumps ==
    \/ TaskExit
    \/ \E rm \in BOOLEAN : ContStop(rm)
    \/ ContStopStatus
    \/ ContStopKill
    \/ ContStopWait
    \/ ContRemove
    \/ RemoveTask
    \/ RemoveContainer
    \/ RemoveCleanup
    \/ ContClose
    \/ \E t \in Pipes : processLogsScan(t)
    \/ \E t \in Pipes : processLogsAppend(t)
    \/ \E t \in Pipes : processLogsUnlock(t)
    \/ \E t \in Pipes : processLogsCopy(t)
    \/ \E t \in Pipes : processLogsRelease(t)
    \/ \E t \in Pipes : processLogsDispatch(t)

PumpSpec == InitPumps /\ [][NextPumps]_vars

\* scheduling: the runtime runs the pumps and the operation in progress whenever they can
\* take a step; which operations are called, and whether the process exits, is up to the
\* environment
PumpStep ==
    \E t \in Pipes :
        \/ processLogsScan(t) \/ processLogsAppend(t) \/ processLogsUnlock(t)
        \/ processLogsCopy(t) \/ processLogsRelease(t) \/ processLogsDispatch(t)

OperationStep ==
    \/ ContStopStatus \/ ContStopKill \/ ContStopWait
    \/ RemoveTask \/ RemoveContainer \/ RemoveCleanup

FairPumpSpec == PumpSpec /\ WF_vars(PumpStep) /\ WF_vars(OperationStep)

\* the registry under Register, Delete and Shutdown, with every instance cold
NextService ==
    \/ NextRegistry
    \/ \E p \in Procs : ShutdownBegin(p)
    \/ \E p \in Procs : ShutdownNext(p)
    \/ \E p \in Procs : ShutdownIsRunning(p)
    \/ \E p \in Procs : ShutdownServer(p)
    \/ \E p \in Procs : ShutdownWait(p)

ServiceSpec == Init /\ [][NextService]_vars

\* one warm instance invoked from three request goroutines at once, with an engine and a
\* container that do not fail
Invokers == {1, 2, 3}

InitCounter ==
    /\ functions = [n \in Names |-> 1]
    /\ created = 1
    /\ Name = [i \in Inst |-> IF i = 1 THEN "f" ELSE "-"]
    /\ Port = [i \in Inst |-> IF i = 1 THEN DefaultPort ELSE 0]
    /\ isRunning = [i \in Inst |-> i = 1]
    /\ isRunningMu = [i \in Inst |-> NoProc]
    /\ container = [i \in Inst |-> IF i = 1 THEN 1 ELSE NoCont]
    /\ containerURL = [i \in Inst |-> i = 1]
    /\ idleTimer = [i \in Inst |-> IF i = 1 THEN "armed" ELSE "nil"]
    /\ idleTimeout = [i \in Inst |-> "default"]
    /\ requestsProcessed = [i \in Inst |-> 0]
    /\ engine = [c \in Cont |-> IF c = 1 THEN "running" ELSE "none"]
    /\ owner = [c \in Cont |-> IF c = 1 THEN 1 ELSE NoInst]
    /\ faults = MaxFaults
    /\ pc = [p \in Invokers |-> "idle"]
    /\ loc = [p \in Invokers |-> NoLoc]
    /\ obs = [p \in Invokers |-> NoObs]
    /\ InitRest

NextCounter ==
    \/ \E p \in Invokers, nm \in Names, bodyOk \in BOOLEAN : InvokeLookup(p, nm, bodyOk)
    \/ \E p \in Invokers : InvokeCheck(p)
    \/ \E p \in Invokers : InvokeReset(p)
    \/ \E p \in Invokers : InvokePost(p)
    \/ \E p \in Invokers : InvokeResponse(p)
    \/ \E p \in Invokers : InvokeLoad(p)
    \/ \E p \in Invokers : InvokeStore(p)
    \/ \E p \in Invokers : Return(p)

CounterSpec == InitCounter /\ [][NextCounter]_vars

\* two functions registered without a port, which registerFunction sets to the default,
\* in an engine that does not fail
Pair == {"f", "g"}
InitPorts ==
    /\ functions = [n \in Pair |-> IF n = "f" THEN 1 ELSE 2]
    /\ created = 2
    /\ Name = [i \in Inst |-> IF i = 1 THEN "f" ELSE IF i = 2 THEN "g" ELSE "-"]
    /\ Port = [i \in Inst |-> IF i \in {1, 2} THEN DefaultPort ELSE 0]
    /\ isRunning = [i \in Inst |-> FALSE]
    /\ isRunningMu = [i \in Inst |-> NoProc]
    /\ container = [i \in Inst |-> NoCont]
    /\ containerURL = [i \in Inst |-> FALSE]
    /\ idleTimer = [i \in Inst |-> "nil"]
    /\ idleTimeout = [i \in Inst |-> "default"]
    /\ requestsProcessed = [i \in Inst |-> 0]
    /\ engine = [c \in Cont |-> "none"]
    /\ owner = [c \in Cont |-> NoInst]
    /\ faults = MaxFaults
    /\ pc = [p \in Procs |-> "idle"]
    /\ loc = [p \in Procs |-> NoLoc]
    /\ obs = [p \in Procs |-> NoObs]
    /\ InitRest

\* invocations of the two functions through the gateway
NextPorts ==
    \/ \E p \in Procs, nm \in Pair, bodyOk \in BOOLEAN : InvokeLookup(p, nm, bodyOk)
    \/ \E p \in Procs : InvokeCheck(p)
    \/ \E p \in Procs : StartBegin(p)
    \/ \E p \in Procs : StartFinish(p)
    \/ \E p \in Procs : InvokeReset(p)
    \/ \E p \in Procs : InvokePost(p)
    \/ \E p \in Procs : InvokeResponse(p)
    \/ \E p \in Procs : InvokeLoad(p)
    \/ \E p \in Procs : InvokeStore(p)
    \/ \E p \in Procs : Return(p)

PortSpec == InitPorts /\ [][NextPorts]_vars

\* one registered instance invoked by a single caller, with nothing else calling Start or
\* Stop: every container of the instance is started by that caller's Invoke
Solo == {1}
NextRestart ==
    \/ \E p \in Solo, nm \in Names, bodyOk \in BOOLEAN : InvokeLookup(p, nm, bodyOk)
    \/ \E p \in Solo : InvokeCheck(p)
    \/ \E p \in Solo : InvokeReset(p)
    \/ \E p \in Solo : InvokePost(p)
    \/ \E p \in Solo : InvokeResponse(p)
    \/ \E p \in Solo : InvokeFailed(p)
    \/ \E p \in Solo : InvokeRetryPost(p)
    \/ \E p \in Solo : InvokeRetryResponse(p)
    \/ \E p \in Solo : InvokeLoad(p)
    \/ \E p \in Solo : InvokeStore(p)
    \/ \E p \in Solo : StartBegin(p)
    \/ \E p \in Solo : StartFinish(p)
    \/ \E p \in Solo : StopBegin(p)
    \/ \E p \in Solo : StopEngine(p)
    \/ \E c \in Cont : Kill(c)
    \/ \E p \in Solo : Return(p)

RestartSpec == InitInstance /\ [][NextRestart]_vars

\* ---- the locking of an instance: every operation as the lock and unlock calls it makes ----

Lock(l) == <<"lock", l>>
Unlock(l) == <<"unlock", l>>
Section(l) == <<Lock(l), Unlock(l)>>

\* the log callback KappaFunction.Start registers: lf.logs under logsMu
logCallbackLocks == Section("logsMu")

\* resetIdleTimer, cancelIdleTimer and SetIdleTimeout: the timer under idleTimerMu
resetIdleTimerLocks == Section("idleTimerMu")
cancelIdleTimerLocks == Section("idleTimerMu")
SetIdleTimeoutLocks_ChecksRunning ==
    <<Lock("idleTimerMu")>> \o Section("isRunningMu") \o <<Unlock("idleTimerMu")>>
SetIdleTimeoutLocks == Section("idleTimerMu")

\* GetLogs and IsRunning of the instance
GetLogsLocks == Section("logsMu")
IsRunningLocks == Section("isRunningMu")

\* Container.StreamLogs: the callback is called for each of the n stored lines under
\* logMu, then addCallback takes callbackMu
StreamLogsLocks(n) ==
    <<Lock("logMu")>> \o (IF n = 0 THEN <<>> ELSE logCallbackLocks) \o <<Unlock("logMu")>>
        \o Section("callbackMu")

\* KappaFunction.Start under isRunningMu: it returns at once (running already, or an error
\* before the handle exists), or registers the temp directory under cleanupMu and fails
\* in Container.Start, or goes on through StreamLogs and resetIdleTimer
StartLocks ==
    {<<Lock("isRunningMu")>> \o body \o <<Unlock("isRunningMu")>> :
        body \in {<<>>, Section("cleanupMu")}
                 \cup {Section("cleanupMu") \o StreamLogsLocks(n) \o resetIdleTimerLocks :
                          n \in {0, 1}}}

\* KappaFunction.Stop under isRunningMu: it returns at once, or cancels the timer and calls
\* Container.Stop, which fails or ends in Remove and its cleanup under cleanupMu
StopLocks ==
    {<<Lock("isRunningMu")>> \o body \o <<Unlock("isRunningMu")>> :
        body \in {<<>>, cancelIdleTimerLocks, cancelIdleTimerLocks \o Section("cleanupMu")}}

\* a call of Start or Stop, or a branch, that a task has still before it: what it does
\* there is settled when it gets there
Call(c) == <<"call", c>>

\* KappaFunction.Invoke: the running flag is read under isRunningMu; then a cold instance
\* is started, the timer is reset, and a failed POST leads to Stop and Start
InvokeLocks == IsRunningLocks \o <<Call("InvokeBody")>>

\* the callback of the idle timer, on a goroutine of its own: the running flag is read
\* under isRunningMu, then Stop is called or not
TimerLocks == IsRunningLocks \o <<Call("TimerBody")>>

\* one round of processLogs: the append under logMu, the copy of the callbacks under
\* callbackMu, the callback when one is registered
processLogsLocks == Section("logMu") \o Section("callbackMu") \o <<Call("Callbacks")>>

\* the ways a call or branch can go
Choices(c) ==
    CASE c = "Start" -> StartLocks
      [] c = "Stop" -> StopLocks
      [] c = "InvokeBody" -> {<<Call("Start")>>,
                              <<Call("Start")>> \o resetIdleTimerLocks \o <<Call("Restart")>>,
                              resetIdleTimerLocks \o <<Call("Restart")>>}
      [] c = "Restart" -> {<<>>, <<Call("Stop"), Call("Start")>>}
      [] c = "TimerBody" -> {<<>>, <<Call("Stop")>>}
      [] c = "Callbacks" -> {<<>>, logCallbackLocks}

\* what a task can be called to do: a pump runs processLogs, a goroutine runs a call of the
\* instance API or the callback of the idle timer
Programs(t) ==
    IF t \in Pipes THEN {processLogsLocks}
    ELSE {<<Call("Start")>>, <<Call("Stop")>>, InvokeLocks, TimerLocks, SetIdleTimeoutLocks,
          GetLogsLocks, IsRunningLocks}

nolock == <<svc, inst, eng, life, accepting, logv, flow, adp, strm>>

\* a task that does nothing is called to run one of its operations
Begin(t) ==
    /\ prog[t] = <<>>
    /\ \E q \in Programs(t) : prog' = [prog EXCEPT ![t] = q]
    /\ UNCHANGED <<nolock, mu>>

\* the task gets to a call or branch and goes one of its ways
Enter(t) ==
    /\ prog[t] # <<>>
    /\ Head(prog[t])[1] = "call"
    /\ \E q \in Choices(Head(prog[t])[2]) : prog' = [prog EXCEPT ![t] = q \o Tail(prog[t])]
    /\ UNCHANGED <<nolock, mu>>

\* sync.Mutex.Lock: the task goes on when the mutex is free, whoever holds it
Acquire(t) ==
    /\ prog[t] # <<>>
    /\ Head(prog[t])[1] = "lock"
    /\ mu[Head(prog[t])[2]] = NoTask
    /\ mu' = [mu EXCEPT ![Head(prog[t])[2]] = t]
    /\ prog' = [prog EXCEPT ![t] = Tail(@)]
    /\ UNCHANGED nolock

\* sync.Mutex.Unlock
Release(t) ==
    /\ prog[t] # <<>>
    /\ Head(prog[t])[1] = "unlock"
    /\ mu' = [mu EXCEPT ![Head(prog[t])[2]] = NoTask]
    /\ prog' = [prog EXCEPT ![t] = Tail(@)]
    /\ UNCHANGED nolock

NextLocks ==
    \/ \E t \in Tasks : Begin(t)
    \/ \E t \in Tasks : Enter(t)
    \/ \E t \in Tasks : Acquire(t)
    \/ \E t \in Tasks : Release(t)

LockSpec == Init /\ [][NextLocks]_vars

TypeOK ==
    /\ functions \in [Names -> 0..MaxInstances]
    /\ created \in 0..MaxInstances
    /\ isRunning \in [Inst -> BOOLEAN]
    /\ isRunningMu \in [Inst -> Procs \cup {NoProc}]
    /\ container \in [Inst -> 0..MaxContainers]
    /\ idleTimer \in [Inst -> {"nil", "armed", "fired"}]
    /\ engine \in [Cont -> {"none", "created", "running", "exited", "removed"}]
    /\ faults \in 0..MaxFaults

\* ---- observations used by the properties ----

\* containers of instance i whose task runs in the engine
LiveOf(i) == {c \in Cont : owner[c] = i /\ engine[c] = "running"}

\* a Start, a Stop or an idle-timer callback of instance i is under way
InTransition(i) ==
    \/ ~LockFree(i)
    \/ \E p \in Procs : loc[p].fn = i /\ pc[p] \in {"start_begin", "start_finish", "stop_begin",
                                                   "stop_engine", "cb_check"}

\* no call of the instance API is in flight (timer callbacks may be)
Quiet == \A p \in Procs : loc[p].op \in {"-", "timer"}

\* goroutine p issues a POST to the container in this step
Sends(p) ==
    \/ pc[p] = "inv_post" /\ pc'[p] = "inv_wait"
    \/ pc[p] = "inv_repost" /\ pc'[p] = "inv_rewait"

\* the Invoke of goroutine p has returned
Returned(p) == pc[p] = "done" /\ loc[p].op = "invoke" /\ loc[p].fn # NoInst /\ loc[p].res # "400"

\* ---- properties ----

\* C1: whenever the running-lock of an instance can be taken, running=true holds if and
\* only if the instance holds a container handle.
C1_RunningIffContainer ==
    \A i \in Allocated : LockFree(i) => (isRunning[i] <=> container[i] # NoCont)

\* C2: an instance never has two live containers, and a Start creates a container only
\* when every container started earlier for the instance has been stopped and removed.
C2_AtMostOneLiveContainer ==
    [][ /\ \A i \in Inst : (Cardinality(LiveOf(i)) <= 1)'
        /\ \A c \in Cont :
              (engine[c] = "none" /\ engine'[c] = "running") =>
                 \A d \in Cont \ {c} :
                    owner[d] = owner'[c] => engine[d] \notin {"running", "exited"} ]_vars

\* two Invokes found the instance cold, both called Start, one container was created
C2_Witness ==
    /\ \A p \in Procs : /\ loc[p].op = "invoke"
                        /\ obs[p].wasCold
                        /\ pc[p] \in {"inv_reset", "inv_post", "inv_wait"}
    /\ Cardinality(LiveOf(1)) = 1
    /\ \E c \in Cont : engine[c] = "none"

\* C3: no POST is issued to an instance whose running flag is false.
C3_PostOnlyWhenRunning ==
    [][ \A p \in Procs : Sends(p) => isRunning[loc[p].fn] ]_vars

\* C4: once no more calls arrive, every instance eventually stays cold: a running
\* instance is always stopped by its idle timer.
C4_IdleShutdownLive ==
    (<>[]Quiet) => <>[](\A i \in Inst : ~isRunning[i])

\* C5: outside of Start/Stop transitions a cold instance has no idle timer and a running
\* instance has an armed idle timer that has not fired.
C5_TimerArmedIffRunning ==
    \A i \in Allocated :
       ~InTransition(i) => /\ isRunning[i] => idleTimer[i] = "armed"
                           /\ ~isRunning[i] => idleTimer[i] = "nil"

\* an Invoke that found the instance cold and returned successfully, with no Stop by
\* anyone else since it looked
ColdInvokeReturnedOk(p) ==
    Returned(p) /\ loc[p].res = "200" /\ obs[p].wasCold /\ ~obs[p].stopSeen

\* C6: an Invoke that found the instance cold sends its request only after a container was
\* started, and when it returns successfully with no Stop by anyone else in between the
\* instance is running; this holds in every cycle of warm, stop and Invoke.
C6_ColdInvokeStartsFirst ==
    [][ \A p \in Procs :
          /\ (pc[p] = "inv_post" /\ pc'[p] = "inv_wait" /\ obs[p].wasCold /\ ~obs[p].stopSeen)
                => (isRunning[loc[p].fn] /\ container[loc[p].fn] # NoCont)
          /\ (ColdInvokeReturnedOk(p) => isRunning[loc[p].fn])' ]_vars

\* an Invoke after a stop found the instance cold again, started the second container and
\* returned successfully
C6_Witness ==
    \E p \in Procs :
       /\ ColdInvokeReturnedOk(p)
       /\ isRunning[loc[p].fn]
       /\ container[loc[p].fn] = 2
       /\ engine[1] = "removed"

\* C7 as stated: at most one restart and two POSTs per Invoke, and a first POST that fails
\* while running=true is always followed by exactly one restart and one retry.
C7_ExactlyOneRetry ==
    \A p \in Procs :
       /\ obs[p].posts <= 2
       /\ obs[p].restarts <= 1
       /\ (Returned(p) /\ obs[p].failRunning) => (obs[p].restarts = 1 /\ obs[p].posts = 2)

\* what a returned Invoke has done, by whether its first POST failed while running=true
RestartAccount(p) ==
    /\ obs[p].posts <= 2
    /\ obs[p].restarts <= 1
    /\ Returned(p) =>
          /\ obs[p].failRunning => (obs[p].restarts = 1 /\ (obs[p].posts = 2 <=> obs[p].restartOk))
          /\ ~obs[p].failRunning => (obs[p].restarts = 0 /\ obs[p].posts <= 1)

\* C7 amended: at most one restart and two POSTs per Invoke; a first POST that fails while
\* running=true is followed by exactly one restart, and the retry is sent exactly when the
\* Start of that restart returns no error; a failed retry ends the Invoke with the error.
C7_OneRestartRetryIfStarted ==
    [][ \A p \in Procs :
          /\ RestartAccount(p)'
          /\ (pc[p] = "inv_rewait" /\ pc'[p] # "inv_rewait") =>
                \/ pc'[p] = "inv_load"
                \/ (pc'[p] = "done" /\ loc'[p].res = "500") ]_vars

\* the first POST failed while running=true, the instance was restarted once and the retry
\* succeeded
C7_Witness ==
    \E p \in Procs :
       /\ Returned(p) /\ loc[p].res = "200"
       /\ obs[p].failRunning /\ obs[p].restarts = 1 /\ obs[p].posts = 2 /\ obs[p].restartOk

\* C8: while a name is not in the registry (deleted and not registered again), the engine
\* runs no container started for that name, and an Invoke that does not find the name
\* answers 404.
C8_DeletedHasNoContainer ==
    /\ \A nm \in Names :
          functions[nm] = NoInst =>
             \A c \in Cont : engine[c] = "running" => Name[owner[c]] # nm
    /\ \A p \in Procs :
          (pc[p] = "done" /\ loc[p].op = "invoke" /\ loc[p].fn = NoInst) => loc[p].res = "404"

\* C9: Delete removes the name only when the instance is cold; a Delete answered 500 or 404
\* leaves the registry unchanged.
C9_DeleteOnlyWhenCold ==
    [][ \A p \in Procs :
          /\ (pc[p] = "del_remove" /\ pc'[p] = "done") => ~isRunning[loc[p].fn]
          /\ (pc'[p] = "done" /\ pc[p] # "done" /\ loc'[p].op = "delete"
                /\ loc'[p].res \in {"404", "500"}) => functions' = functions ]_vars

\* C10: a Register of a name that is in the registry answers 409 and leaves the registry
\* and the registered instance unchanged.
C10_DuplicateRegisterConflict ==
    [][ \A p \in Procs :
          (pc[p] = "idle" /\ pc'[p] = "done" /\ loc'[p].op = "register"
             /\ loc'[p].res # "400" /\ functions[loc'[p].nm] # NoInst)
          => (loc'[p].res = "409" /\ functions' = functions) ]_vars

\* goroutine p answers a Register request in this step
Registers(p) == pc[p] = "idle" /\ pc'[p] = "done" /\ loc'[p].op = "register"

\* C11: a Register whose body is undecodable, lacks a field or names a binary that does not
\* exist answers 400 and leaves the registry unchanged; a Register passing every check adds
\* an instance under its name, and that instance is cold and has no container.
C11_RegisterValidates ==
    [][ \A p \in Procs :
          Registers(p) =>
             IF loc'[p].arg # "ok"
             THEN /\ loc'[p].res = "400"
                  /\ UNCHANGED <<functions, created, Name, Port>>
             ELSE LET i == functions'[loc'[p].nm] IN
                  /\ loc'[p].res = "201"
                  /\ created' = created + 1
                  /\ i = created'
                  /\ ~isRunning'[i]
                  /\ container'[i] = NoCont
                  /\ \A c \in Cont : owner'[c] # i ]_vars

\* a Register naming a missing binary was answered 400 while the registry held an instance
C11_Witness ==
    \E p \in Procs :
       /\ pc[p] = "done" /\ loc[p].op = "register"
       /\ loc[p].arg = "noBinary" /\ loc[p].res = "400"
       /\ functions["f"] = 1

\* goroutine p returns from Shutdown in this step
ShutdownReturns(p) == pc[p] = "sd_wait" /\ pc'[p] = "done"

\* C12: Shutdown closes the gateway only after it has visited every instance, and when it
\* returns no registered instance has a live container, whatever invocations arrived or
\* were in flight while it iterated.
C12_ShutdownLeavesNoContainer ==
    [][ \A p \in Procs :
          /\ (pc[p] = "sd_server" /\ pc'[p] = "sd_wait") => (accepting /\ loc[p].todo = {})
          /\ ShutdownReturns(p) =>
                \A nm \in Names : functions[nm] # NoInst => LiveOf(functions[nm]) = {} ]_vars

\* the last n elements of q, in order
LastLines(q, n) ==
    LET m == IF Len(q) < n THEN Len(q) ELSE n IN
    [j \in 1..m |-> q[Len(q) - m + j]]

\* C13: whenever a reader can take the lock the log buffer holds at most the cap, namely
\* the last lines appended by the two pumps in append order, and so does every copy that
\* GetLogs returned.
C13_LogBufferBounded ==
    /\ Len(snapshot.lines) <= LogCap
    /\ snapshot.lines = LastLines(SubSeq(appended, 1, snapshot.at), LogCap)
    /\ logsMu = NoPipe => (Len(logs) <= LogCap /\ logs = LastLines(appended, LogCap))

\* both pumps have appended all their lines, more than the cap, and GetLogs returned a
\* full buffer that holds lines of both pipes
C13_Witness ==
    /\ Len(appended) = 2 * MaxLines
    /\ Len(appended) > LogCap
    /\ snapshot.at = Len(appended)
    /\ Len(snapshot.lines) = LogCap
    /\ \A s \in Pipes : \E j \in 1..Len(snapshot.lines) : snapshot.lines[j][1] = s

\* Invoke has returned a response envelope
InvokeOk == flow.stage \in {"returned", "replied"} /\ flow.by # "-" /\ ~flow.out.err

\* C14: the response of a successful Invoke has a non-empty requestId; the id sent on the
\* Kappa-Runtime-Aws-Request-Id header is the event's requestId when given, else a fresh
\* UUID, and the response carries that id unless the container's answer had its own.
C14_RequestIdBackfilled ==
    InvokeOk =>
       /\ flow.out.env.requestId # Empty
       /\ flow.hdr = (IF flow.ev.requestId # Empty THEN flow.ev.requestId ELSE Uuid)
       /\ flow.req.krid = flow.hdr
       /\ flow.out.env.requestId = (IF flow.cres.env.requestId # Empty
                                    THEN flow.cres.env.requestId ELSE flow.hdr)

\* an Invoke given an event with its own id returned the answer of a container that set
\* no requestId
C14_Witness ==
    /\ InvokeOk
    /\ flow.via = "invoke"
    /\ flow.ev.requestId = <<"event-body-id">>
    /\ flow.cres.env.requestId = Empty
    /\ flow.out.env.requestId = <<"event-body-id">>

\* the Start of goroutine p returns without error in this step
StartReturnsOk(p) ==
    /\ pc[p] \in {"start_begin", "start_finish"}
    /\ \/ loc[p].ret = "direct" /\ pc'[p] = "done" /\ loc'[p].res = "nil"
       \/ loc[p].ret = "inv_cold" /\ pc'[p] = "inv_reset"
       \/ loc[p].ret = "inv_restart" /\ pc'[p] = "inv_repost"

\* the Stop of goroutine p returns without error to a caller that looks at the result
StopReturnsOk(p) ==
    /\ pc[p] \in {"stop_begin", "stop_engine"}
    /\ \/ loc[p].ret = "direct" /\ pc'[p] = "done" /\ loc'[p].res = "nil"
       \/ loc[p].ret = "del" /\ pc'[p] = "del_remove"

\* the step leaves the engine and the fields running, container, containerURL of i alone
SameInstance(i) ==
    /\ UNCHANGED <<engine, owner>>
    /\ isRunning'[i] = isRunning[i]
    /\ container'[i] = container[i]
    /\ containerURL'[i] = containerURL[i]

\* C15: Start on a running instance and Stop on a cold instance (explicit, or from the
\* idle-timer callback) return success without an engine call and leave running, container
\* and containerURL unchanged; a successful Start leaves running=true with container and
\* containerURL set, a successful Stop leaves running=false.
C15_StartStopIdempotent ==
    [][ \A p \in Procs :
          LET i == loc[p].fn IN
          /\ (pc[p] = "start_begin" /\ pc'[p] # "start_begin" /\ isRunning[i]) =>
                (SameInstance(i) /\ StartReturnsOk(p))
          /\ (pc[p] = "stop_begin" /\ pc'[p] # "stop_begin" /\ ~isRunning[i]) =>
                /\ SameInstance(i)
                /\ pc'[p] # "stop_engine"
                /\ loc[p].ret \in {"direct", "del"} => StopReturnsOk(p)
                /\ loc[p].ret = "cb" => pc'[p] = "idle"
          /\ StartReturnsOk(p) =>
                (isRunning'[i] /\ container'[i] # NoCont /\ containerURL'[i])
          /\ StopReturnsOk(p) => ~isRunning'[i] ]_vars

\* two explicit Stops of the running instance both returned success and its one container
\* was removed
C15_Witness ==
    /\ \A p \in Procs : pc[p] = "done" /\ loc[p].op = "stop" /\ loc[p].res = "nil"
    /\ ~isRunning[1]
    /\ engine[1] = "removed"
    /\ engine[2] = "none"
    /\ faults = 0

\* C16: whenever Invoke returned a response envelope, the gateway has written a reply whose
\* status is the envelope's statusCode, whose headers include the envelope's headers and
\* whose body is the envelope's body, also for an envelope without statusCode.
C16_ReplyMirrorsEnvelope ==
    (flow.stage = "replied" /\ flow.via = "gateway" /\ InvokeOk) =>
       /\ flow.reply.written
       /\ flow.reply.status = flow.out.env.statusCode
       /\ flow.out.env.headers \subseteq flow.reply.headers
       /\ flow.reply.body = flow.out.env.body

\* C17: for every JSON value posted to the gateway of a function that echoes event.body,
\* the input member of the reply's body equals the posted value up to number widening.
C17_EchoRoundTrip ==
    (flow.stage = "replied" /\ flow.via = "gateway" /\ flow.by \in {"-", "echo"}) =>
       /\ flow.reply.written
       /\ flow.reply.body.input = [t |-> flow.x.t, v |-> WidenText(flow.x.v)]

\* the in-container handler has answered a request
Served == flow.by \in UserHandlers

\* C18: a POST with a decodable event is answered with transport status 200 and an
\* envelope that carries the statusCode and the body the user handler returned.
C18_TransportAlways200 ==
    (Served /\ flow.req.method = "POST" /\ flow.req.decodable) =>
       /\ flow.called
       /\ flow.cres.status = 200
       /\ flow.cres.kind = "json"
       /\ flow.cres.env.statusCode = UserHandler(flow.by, flow.seen).statusCode
       /\ flow.cres.env.body = UserHandler(flow.by, flow.seen).body

\* the user handler answered 400 and the transport status is 200
C18_Witness ==
    /\ Served /\ flow.by = "rejects" /\ flow.called
    /\ flow.cres.status = 200
    /\ flow.cres.env.statusCode = 400

\* C19: a request with another method than POST is answered 405, a POST with an
\* undecodable body 400 with the error "Invalid request body", and the user handler is
\* called for neither.
C19_RejectedNotHandled ==
    Served =>
       /\ flow.req.method # "POST" => (flow.cres.status = 405 /\ ~flow.called)
       /\ (flow.req.method = "POST" /\ ~flow.req.decodable) =>
             /\ flow.cres.status = 400
             /\ flow.cres.error = "Invalid request body"
             /\ ~flow.called
       /\ flow.called => flow.cres.status = 200

\* a GET whose body would decode was answered 405 without a call of the user handler
C19_Witness ==
    /\ Served /\ flow.req.method = "GET" /\ flow.req.decodable
    /\ flow.cres.status = 405 /\ ~flow.called

\* C20: the user handler sees the event's own requestId when it has one, else the
\* Kappa-Runtime-Aws-Request-Id header, else "req-" followed by the X-Request-Id header,
\* and never an empty id.
C20_RequestIdPrecedence ==
    (Served /\ flow.called) =>
       /\ flow.seen.requestId # Empty
       /\ flow.seen.requestId =
             (IF flow.req.ev.requestId # Empty THEN flow.req.ev.requestId
              ELSE IF flow.req.krid # Empty THEN flow.req.krid
              ELSE <<"req-">> \o flow.req.xrid)

\* a request with both headers and an id in the event: the handler saw the event's id
C20_Witness ==
    /\ Served /\ flow.called
    /\ flow.req.krid = <<"kappa-aws-id">> /\ flow.req.xrid = <<"x-req-id">>
    /\ flow.req.ev.requestId = <<"event-body-id">>
    /\ flow.seen.requestId = <<"event-body-id">>

\* C21: once Stop has returned nil on a started container, the engine holds no container
\* of that id when removeOnStop was set, and otherwise still holds the container, whose
\* task is not running.
C21_StopHonoursRemoveOnStop ==
    (apc = "idle" /\ aret.op = "stop" /\ aret.errs = <<>> /\ aret.had)
        => IF aret.rm THEN ~engCont ELSE engCont /\ engTask # "running"

\* the order in which Remove is to go through its steps
StepRank(s) == CASE s = "task" -> 1 [] s = "container" -> 2 [] s = "cleanup" -> 3 [] OTHER -> 4
InOrder(q) == \A i, j \in 1..Len(q) : i < j => StepRank(q[i]) < StepRank(q[j])

\* C22: a Remove that returns has gone through task deletion, container deletion and the
\* unlinking of the temp directories in this order whatever failed before, returns nil
\* exactly when no step failed with an error other than not-found, has unlinked every
\* directory that was registered and has left the list of the handle empty.
C22_RemoveBestEffortComplete ==
    [][ (apc = "rm_clean" /\ apc' = "idle") =>
            /\ InOrder(aret'.tried)
            /\ "cleanup" \in Range(aret'.tried)
            /\ cContainer => "container" \in Range(aret'.tried)
            /\ aret'.errs = aret'.failed
            /\ \A d \in aret'.dirs : d \notin disk'
            /\ tempDirs' = <<>> ]_vars

\* C28: when KappaFunction.Start returns an error, the temp directory it made and the
\* engine container and task it allocated have been removed.
C28_FailedStartCleansUp ==
    [][ (aloc.op = "kstart" /\ apc # "idle" /\ apc' = "idle" /\ aret'.errs # <<>>) =>
            /\ aret'.tmp \notin disk'
            /\ ~engCont'
            /\ engTask' = "none" ]_vars

\* C29: when the creation of the task fails, Container.Start returns the error with the
\* container it created before deleted from the engine.
C29_TaskFailureDeletesContainer ==
    [][ (apc = "cs_task" /\ apc' # "cs_run") => ~engCont' ]_vars

\* C30: while a log callback runs, the goroutine that called it holds neither the log
\* append lock nor the callback-list lock of the container.
C30_CallbackOutsideLocks ==
    \A t \in Threads : thr[t].pc = "in_cb" => logMu # t /\ callbackMu # t

\* C23: an Invoke goes into its restart (Stop, Start, second POST) only from a POST that
\* failed at connection level while the instance is running; the expiry of the client's
\* timeout, like every other error, is returned without a restart.
C23_RestartOnlyOnTransportFailure ==
    [][ \A p \in Procs :
          obs'[p].restarts > obs[p].restarts
              => pc[p] = "inv_failed" /\ isRunning[loc[p].fn] ]_vars

\* goroutine q is inside the range over s.functions
Iterating(q) ==
    /\ loc[q].op = "shutdown"
    /\ pc[q] \in {"sd_next", "sd_isrunning", "stop_begin", "stop_engine"}

\* C24: the accesses to the name-to-instance map exclude each other: no handler inserts
\* into the map or removes from it while another goroutine reads it, here by iterating.
C24_RegistryMapExclusive ==
    [][ functions' # functions => \A q \in Procs : ~Iterating(q) ]_vars

\* goroutine p takes a step that reads or writes isRunning, container, containerURL or
\* idleTimer of its instance and does not itself begin with taking isRunningMu
FieldAccess(p) ==
    /\ pc'[p] # pc[p]
    /\ pc[p] \in {"inv_reset", "inv_post", "inv_failed", "inv_timeout", "start_finish",
                  "stop_engine"}

\* C25: whoever reads or writes isRunning, container, containerURL or idleTimer of an
\* instance holds the running-lock of the instance.
C25_FieldsUnderRunningLock ==
    [][ \A p \in Procs : FieldAccess(p) => isRunningMu[loc[p].fn] = p ]_vars

\* C26: a goroutine whose POST to the container is in flight does not hold the
\* running-lock of the instance, and whoever holds it then is inside Start or Stop: an
\* invocation that needs no restart blocks no IsRunning and no other Invoke.
C26_NoLockDuringHttp ==
    \A p \in Procs :
        pc[p] \in {"inv_wait", "inv_rewait"} =>
            LET h == isRunningMu[loc[p].fn] IN
            /\ h # p
            /\ h # NoProc => pc[h] \in {"start_finish", "stop_engine"}

\* two Invokes of one warm instance are in their HTTP phase at once, and the lock is free
C26_Witness ==
    \E i \in Allocated :
        /\ isRunning[i]
        /\ LockFree(i)
        /\ \A p \in Procs : pc[p] = "inv_wait" /\ loc[p].fn = i /\ ~obs[p].wasCold

\* C27: no step lowers requestsProcessed of an instance.
C27_CounterMonotone ==
    [][ \A i \in Inst : requestsProcessed'[i] >= requestsProcessed[i] ]_vars

\* C33: the log store of the container adapter never holds more than the cap of lines,
\* however many lines the container writes.
C33_AdapterLogBounded ==
    Len(cLogs) <= LogCap

\* the lines of pipe t in a sequence of lines, and their numbers on that pipe
PipeSeq(q, t) == SelectSeq(q, LAMBDA l : l[1] = t)
Increasing(q) == \A i \in 1..Len(q) : \A j \in 1..Len(q) : i < j => q[i][2] < q[j][2]
NonDecreasing(q) == \A i \in 1..Len(q) : \A j \in 1..Len(q) : i < j => q[i][2] <= q[j][2]

\* C31: for each pipe taken separately, the stored lines are in the order the container
\* wrote them, and no callback is called with an earlier line of a pipe after a later
\* line of that pipe.
C31_PerPipeOrder ==
    \A t \in Pipes :
        /\ Increasing(PipeSeq(cLogs, t))
        /\ \A cb \in CbKinds : NonDecreasing(PipeSeq(delivered[cb], t))

\* the callback has had two lines of one pipe and a line of the other pipe in between,
\* and it had the lines of the two pipes in another order than the store holds them
C31_Witness ==
    \E t \in Pipes : \E u \in Pipes \ {t} :
        /\ Len(delivered["plain"]) >= 3
        /\ delivered["plain"][1] = <<t, 1>>
        /\ delivered["plain"][2] = <<u, 1>>
        /\ delivered["plain"][3] = <<t, 2>>
        /\ cLogs[1] = <<u, 1>>

\* how often line l occurs in the sequence q
Count(q, l) == Cardinality({i \in 1..Len(q) : q[i] = l})

\* C39: once the callback is registered and the pumps have processed what the container
\* wrote, the callback has been called exactly once with every stored line.
C39_DeliveredExactlyOnce ==
    ("plain" \in Range(callbacks) /\ \A t \in Pipes : thr[t].pc = "idle")
        => \A i \in 1..Len(cLogs) : Count(delivered["plain"], cLogs[i]) = 1

\* the handle was closed, or its container was stopped and removed from the engine, and
\* no operation is in progress
Gone == apc = "idle" /\ (handle = "closed" \/ (~engCont /\ engTask = "none"))

\* C32: once the container has been stopped and removed, or closed, both log pumps
\* eventually terminate.
C32_PumpsTerminate ==
    Gone ~> (\A t \in Pipes : thr[t].pc = "done")

\* the task whose mutex task t waits for, the mutexes t holds, and the order in which
\* the mutexes nest
WaitsFor(t) ==
    IF prog[t] # <<>> /\ Head(prog[t])[1] = "lock" THEN mu[Head(prog[t])[2]] ELSE NoTask
RECURSIVE Follow(_, _)
Follow(t, n) == IF n = 0 \/ t = NoTask THEN t ELSE Follow(WaitsFor(t), n - 1)
Deadlocked(t) == \E n \in 1..Cardinality(Tasks) : Follow(t, n) = t
Held(t) == {l \in Locks : mu[l] = t}
LockRank(l) ==
    CASE l = "isRunningMu" -> 1
      [] l \in {"idleTimerMu", "cleanupMu", "logMu", "callbackMu"} -> 2
      [] l = "logsMu" -> 3

\* C34: no set of tasks waits for each other's mutexes, and every task takes its
\* mutexes in one order: isRunningMu before the timer, log, callback and cleanup
\* mutexes, and those before logsMu.
C34_DeadlockFree ==
    \A t \in Tasks :
        /\ ~Deadlocked(t)
        /\ (prog[t] # <<>> /\ Head(prog[t])[1] = "lock")
              => \A h \in Held(t) : LockRank(h) < LockRank(Head(prog[t])[2])

\* Start replays a stored line to its callback with isRunningMu, logMu and logsMu held,
\* while the other goroutine waits for isRunningMu and a pump waits for logMu
C34_Witness ==
    /\ Held("g1") = {"isRunningMu", "logMu", "logsMu"}
    /\ WaitsFor("g2") = "g1"
    /\ WaitsFor("stdout") = "g1"
    /\ prog["stderr"] # <<>>

\* C35: while the POST of an Invoke is in flight, no callback of the idle timer stops and
\* removes the container of that instance.
C35_NoIdleStopDuringRequest ==
    [][ \A p \in Procs :
          (loc[p].op = "timer" /\ pc[p] = "stop_engine" /\ ~isRunning'[loc[p].fn])
              => \A q \in Procs :
                    ~(pc[q] \in {"inv_wait", "inv_rewait"} /\ loc[q].fn = loc[p].fn) ]_vars

\* C36: a callback of the idle timer goes on to stop the container only when the timer
\* that fired is still the timer of the instance: no resetIdleTimer and no Stop has
\* replaced or cancelled it since.
C36_SupersededTimerHarmless ==
    [][ \A p \in Procs :
          (loc[p].op = "timer" /\ pc[p] = "stop_begin" /\ pc'[p] = "stop_engine")
              => idleTimer[loc[p].fn] = "fired" ]_vars

\* the Invoke calls on instance i that have returned a response and whose goroutine has
\* not ended yet
ReturnedOk(i) ==
    {p \in DOMAIN pc : pc[p] = "done" /\ loc[p].op = "invoke" /\ loc[p].fn = i /\ loc[p].res = "200"}

\* C37: when no call is under way, no successful invocation is missing from
\* requestsProcessed: it counts at least the Invoke calls that have just returned a
\* response.
C37_CounterCountsSuccesses ==
    (\A p \in DOMAIN pc : pc[p] \in {"idle", "done"})
        => \A i \in Inst : requestsProcessed[i] >= Cardinality(ReturnedOk(i))

\* the containers a POST to the URL of instance i can be served by: on the host network
\* every running container listens on its function's port of localhost
Servers(i) == {c \in Cont : engine[c] = "running" /\ Port[owner[c]] = Port[i]}

\* C38: when an Invoke for a function gets its response, every container that can have
\* served the POST was started for that function.
C38_InvocationsIsolated ==
    [][ \A p \in Procs :
          (pc[p] \in {"inv_wait", "inv_rewait"} /\ pc'[p] = "inv_load")
              => Servers(loc[p].fn) \subseteq LiveOf(loc[p].fn) ]_vars

\* C40: an Invoke on the restart path gets to its retry POST only from the end of a Start
\* that created a container, which Start does only after the Stop before it has taken
\* the instance out of the running state.
C40_RetryOnlyAfterRestart ==
    [][ \A p \in Procs :
          (pc[p] # "inv_repost" /\ pc'[p] = "inv_repost") => pc[p] = "start_finish" ]_vars

====
